---- MODULE Spec2Model ----
(***************************************************************************)
(* Workflow execution engine of No-Code-AI-Workflow                        *)
(* (lib/workflowExecutor.ts): executeWorkflow, findStartNode,              *)
(* findNextNodes, executeTask, storeWorkflowResult.                        *)
(*                                                                         *)
(* A call of executeWorkflow is modelled (and, in one specification, a     *)
(* second call after it).  The call is cut at its await                    *)
(* points: the creation of the run document, each task call, each write of *)
(* a per-node document, the final update and the update of the catch       *)
(* block.  The arguments of the call (nodes, edges, options) are drawn     *)
(* from bounded sets when the call is made.  Nodes are named by their     *)
(* position in the nodes array; the edges array is a set, since the code   *)
(* only filters and maps it (its order and duplicates change nothing).     *)
(***************************************************************************)
EXTENDS Integers, Sequences, FiniteSets

(* ---------------------------------------------------------------- bounds *)
\* largest number of nodes in the nodes array
MaxNodes == 3
\* largest number of edges in the edges array (the join graphs below have
\* three)
MaxEdges == 2
\* largest nodes array and edges array of the small graphs, which the
\* specifications with more kinds of edge or task, or more than one call,
\* draw
MaxSmallNodes == 2
MaxSmallEdges == 1
\* largest number of entries of the previousResults map handed to
\* executeTask
MaxPrevious == 2
\* largest number of pieces (literal text, placeholders) of a prompt
MaxTemplate == 2
\* largest length of the store's history stack
MaxHistory == 3
\* largest number of nodes and edges created in the editor
MaxCreated == 3
\* overlapping calls of executeWorkflow, and AI task nodes executed by one
MaxRuns == 2
MaxRunNodes == 2
\* the largest maxTokens, and the largest temperature in tenths, a node sets
MaxParameter == 2
\* requests of the workflow store to the database that are in flight
MaxPending == 2

(* ------------------------------------------------------------- constants *)
\* "no node": findStartNode's null
NoNode == 0
\* Node ids.  The nodes array is <<1, ..., n>>; an id above n is the id of
\* a node that is not in the nodes array.
NodeIds == 1..MaxNodes
\* edge.data.condition: one of the three values the editor sets ...
EdgeConditions == {"always", "success", "error"}
\* ... or absent (undefined/null/""), or some other string
Unset == "unset"
Unknown == "maybe"
Conditions == EdgeConditions \cup {Unset, Unknown}
\* the edges the caller may pass with a nodes array of n nodes and
\* conditions in conds: the source is a node of the array, the target any
\* id (in the array or not)
EdgeSpace(n, conds) == [source : 1..n, target : NodeIds, condition : conds]
\* what handler.execute of a registered handler can do: return a result
\* with success true, return one with success false, or reject (a handler
\* that throws)
TaskOutcomes == {"success", "error", "throw"}
\* the executionId of the modelled call (ID.unique())
ExecutionId == "E1"
\* the error caught by the catch block, named by the await that rejected:
\* none, createDocument of the run, executeTask, storeWorkflowResult, the
\* final updateDocument
NoError == "none"
Errors == {"create", "task", "store", "final"}

VARIABLES
  pc,          \* position of the call: idle, creating, loop, task, storing,
               \*   finalizing, catch, done
  nodes,       \* argument nodes: sequence of node ids, declaration order
  edges,       \* argument edges: set of [source, target, condition]
  userId,      \* options.userId given?
  queue,       \* sequence of [node, dependencies]
  enqueued,    \* Set<string>
  executed,    \* Set<string>
  results,     \* Record<string, TaskResult>: function on a set of node ids
  node,        \* the node popped by the current iteration (NoNode if none)
  result,      \* the TaskResult of the current iteration
  validEdges,  \* findNextNodes' validEdges at its last call
  runDoc,      \* the run document in the store (status "none" if absent)
  nodeDocs,    \* the per-node documents in the store, in creation order
  toasts,      \* toast.error messages shown
  calls,       \* history: node ids whose task was called, in call order
  returned,    \* has executeWorkflow returned its results map?
  nodeData,    \* node.data.lastExecutionId of each node of the array
  error,       \* the error caught by the catch block (NoError if none)
  apiKey,      \* aiTaskHandler.options.apiKey is set
  handlerCalls,  \* history: node ids for which handler.execute was called
  providerCalls, \* history: node ids for which the completion provider was
                 \*   called, in call order
  enqueueLog,  \* history: node ids in the order they were pushed on the queue
  observed,    \* what an earlier call handed to its caller (two-call
               \*   specification only)
  taskNode,    \* executeTask's argument node: its id, its
               \*   data.parameters.prompt and whether data.targetHandle is set
  previousResults, \* executeTask's argument previousResults: the entries of
               \*   the map in insertion order
  parameters,  \* executeTask's local parameters, as put in the TaskConfig
  fetched,     \* what fetchWorkflowResults(executionId) returned
  store,       \* the workflow store's nodes and edges
  history,     \* the workflow store's history
  historyIndex, \* the workflow store's historyIndex (-1: none)
  lastOp,      \* history variable: the last operation on the store, with the
               \*   nodes and edges before it
  now,         \* Date.now(), counted in ids made from it
  handlerOptions, \* aiTaskHandler.options.apiKey (module state): a key or NoKey
  runs,        \* the calls of executeWorkflow that may overlap: position,
               \*   options.userId, options.openAIApiKey, AI nodes left
  providerKeys, \* history: [run, key] for each OpenAI client created
  taskParameters, \* config.parameters of AITaskHandler.execute: model,
               \*   maxTokens, temperature (in tenths), each given or absent
  env,         \* process.env.MAX_TOKENS and process.env.DEFAULT_TEMPERATURE
  request,     \* the arguments of openai.chat.completions.create, once called
  user,        \* the workflow store's user is set (logged in)
  currentWorkflowId, \* the workflow store's currentWorkflowId (0: null)
  documents,   \* the workflow documents in the database, the one updated
               \*   last at the end
  pending      \* the store's database requests in flight, in issue order

vars == <<pc, nodes, edges, userId, queue, enqueued, executed, results, node,
          result, validEdges, runDoc, nodeDocs, toasts, calls, returned,
          nodeData, error, apiKey, handlerCalls, providerCalls, enqueueLog,
          observed, taskNode, previousResults, parameters, fetched,
          store, history, historyIndex, lastOp, now,
          handlerOptions, runs, providerKeys, taskParameters, env, request,
          user, currentWorkflowId, documents, pending>>

\* the state of executeTask's prompt building, which is modelled on its own
promptVars == <<taskNode, previousResults, parameters>>
\* the state outside of the modelled run of executeWorkflow
\* the state of the workflow store (workflowStore.ts)
storeVars == <<store, history, historyIndex, lastOp, now>>
\* the API key of the AI task handler under overlapping calls
keyVars == <<handlerOptions, runs, providerKeys>>
\* the state modelled on its own beside prompt building, fetching and the
\* workflow store
\* the parameters of the provider call
requestVars == <<taskParameters, env, request>>
\* the session of the workflow store and its documents in the database
sessionVars == <<user, currentWorkflowId, documents, pending>>
elsewhere == <<keyVars, requestVars, sessionVars>>
outside == <<promptVars, fetched, storeVars, elsewhere>>
\* the state of the modelled run of executeWorkflow
runVars == <<pc, nodes, edges, userId, queue, enqueued, executed, results, node,
             result, validEdges, runDoc, nodeDocs, toasts, calls, returned,
             nodeData, error, apiKey, handlerCalls, providerCalls, enqueueLog,
             observed>>

(* ------------------------------------------------------------- utilities *)
NoResult == [success |-> FALSE, error |-> "", nodeId |-> NoNode, executionId |-> ""]
NoRunDoc == [status |-> "none", totalNodes |-> 0, nodesExecuted |-> 0,
             successCount |-> 0, errorCount |-> 0, error |-> ""]
\* no earlier call has returned
NoObservation == [returned |-> <<>>, status |-> "no call"]

\* mutant: the default is missing (edge.data?.condition alone)
EdgeCondition_NoDefault(edge) == edge.condition

\* edge.data?.condition || 'always'
EdgeCondition(edge) == IF edge.condition = Unset THEN "always" ELSE edge.condition

\* mutant: the outcome is not compared, every outgoing edge is valid
IsValidEdge_IgnoreOutcome(edge, condition) == TRUE

\* mutant: the "always" clause is missing
IsValidEdge_NoAlways(edge, condition) == EdgeCondition(edge) = condition

\* mutant: the comparison with the outcome is inverted
IsValidEdge_Inverted(edge, condition) ==
  EdgeCondition(edge) = "always" \/ EdgeCondition(edge) # condition

\* mutant: every condition value other than "success" and "error" counts
\* as "always"
IsValidEdge_UnknownAsAlways(edge, condition) ==
  EdgeCondition(edge) \notin {"success", "error"} \/ EdgeCondition(edge) = condition

\* the filter predicate of validEdges in findNextNodes
IsValidEdge(edge, condition) ==
  EdgeCondition(edge) = "always" \/ EdgeCondition(edge) = condition

\* mutant: the filter edge.source === nodeId is missing, the edges of every
\* node count as outgoing
OutgoingEdges_All(nodeId, es) == es

OutgoingEdges(nodeId, es) == {e \in es : e.source = nodeId}

ValidEdges(nodeId, es, condition) ==
  {e \in OutgoingEdges(nodeId, es) : IsValidEdge(e, condition)}

\* findNextNodes: the nodes (in declaration order) that are the target of a
\* valid outgoing edge
FindNextNodes(nodeId, es, ns, condition) ==
  LET nextNodeIds == {e.target : e \in ValidEdges(nodeId, es, condition)}
      Keep(n) == n \in nextNodeIds
  IN  SelectSeq(ns, Keep)

\* mutant: without a node free of incoming edges, the first node is used
FindStartNode_FallbackFirst(ns, es) ==
  LET nodesWithIncomingEdges == {e.target : e \in es}
      IsStart(n) == n \notin nodesWithIncomingEdges
      startNodes == SelectSeq(ns, IsStart)
  IN  IF Len(startNodes) > 0 THEN startNodes[1]
      ELSE IF Len(ns) > 0 THEN ns[1] ELSE NoNode

\* mutant: the last candidate is used instead of the first
FindStartNode_Last(ns, es) ==
  LET nodesWithIncomingEdges == {e.target : e \in es}
      IsStart(n) == n \notin nodesWithIncomingEdges
      startNodes == SelectSeq(ns, IsStart)
  IN  IF Len(startNodes) > 0 THEN startNodes[Len(startNodes)] ELSE NoNode

\* findStartNode: the first node of the nodes array that is no edge's target
FindStartNode(ns, es) ==
  LET nodesWithIncomingEdges == {e.target : e \in es}
      IsStart(n) == n \notin nodesWithIncomingEdges
      startNodes == SelectSeq(ns, IsStart)
  IN  IF Len(startNodes) > 0 THEN startNodes[1] ELSE NoNode

\* mutant: the enqueued guard is missing, every next node is pushed
RECURSIVE QueueNext_NoGuard(_, _, _, _)
QueueNext_NoGuard(nextNodes, cur, q, enq) ==
  IF nextNodes = <<>> THEN <<q, enq>>
  ELSE QueueNext_NoGuard(Tail(nextNodes), cur,
                         Append(q, [node |-> Head(nextNodes), dependencies |-> {cur}]),
                         enq \cup {Head(nextNodes)})

\* mutant: a queued item awaits its own node
RECURSIVE QueueNext_AwaitsItself(_, _, _, _)
QueueNext_AwaitsItself(nextNodes, cur, q, enq) ==
  IF nextNodes = <<>> THEN <<q, enq>>
  ELSE LET nextNode == Head(nextNodes)
       IN  IF nextNode \notin enq
           THEN QueueNext_AwaitsItself(Tail(nextNodes), cur,
                          Append(q, [node |-> nextNode, dependencies |-> {nextNode}]),
                          enq \cup {nextNode})
           ELSE QueueNext_AwaitsItself(Tail(nextNodes), cur, q, enq)

\* the "Queue next nodes" loop: returns <<queue, enqueued>> after it
RECURSIVE QueueNext(_, _, _, _)
QueueNext(nextNodes, cur, q, enq) ==
  IF nextNodes = <<>> THEN <<q, enq>>
  ELSE LET nextNode == Head(nextNodes)
       IN  IF nextNode \notin enq
           THEN QueueNext(Tail(nextNodes), cur,
                          Append(q, [node |-> nextNode, dependencies |-> {cur}]),
                          enq \cup {nextNode})
           ELSE QueueNext(Tail(nextNodes), cur, q, enq)

\* mutant: every result is counted as a success
SuccessCount_All(res) == Cardinality(DOMAIN res)

\* Object.values(results).filter(r => r.success).length and its negation
SuccessCount(res) == Cardinality({k \in DOMAIN res : res[k].success})
ErrorCount(res) == Cardinality({k \in DOMAIN res : ~res[k].success})

(* ------------------------------------------------------- prompt building *)
\* A string is a sequence of pieces; '' is <<>>.  A node id is the sequence
\* of its characters.
Digits == <<"1", "2", "3", "4", "5", "6", "7", "8", "9">>
DigitChars == {"0"} \cup {Digits[i] : i \in DOMAIN Digits}
\* how the ids of a graph are written: "1", "2", ... (the ids of the spec's
\* scenarios); "n1", "n2", ...; "node-1", "node-2", ... (the editor's
\* `node-${Date.now()}`)
IdKinds == {"index", "word", "editor"}
IdText(kind, k) ==
  CASE kind = "index" -> <<Digits[k]>>
    [] kind = "word" -> <<"n", Digits[k]>>
    [] OTHER -> <<"n", "o", "d", "e", "-", Digits[k]>>
\* the regular expression's \w+ : one or more of [A-Za-z0-9_]
WordChars == DigitChars \cup {"n", "o", "d", "e", "_"}
IsWord(text) == text # <<>> /\ \A i \in DOMAIN text : text[i] \in WordChars
\* an own property key that is an array index (a canonical numeric string):
\* such keys come first and in ascending order when the keys of an object
\* are listed
IsArrayIndex(text) ==
  /\ text # <<>>
  /\ \A i \in DOMAIN text : text[i] \in DigitChars
  /\ Len(text) > 1 => text[1] # "0"
RECURSIVE IndexValue(_)
IndexValue(text) ==
  IF text = <<>> THEN 0
  ELSE LET last == text[Len(text)]
           digit == IF last = "0" THEN 0
                    ELSE CHOOSE d \in DOMAIN Digits : Digits[d] = last
       IN  10 * IndexValue(SubSeq(text, 1, Len(text) - 1)) + digit

\* the pieces of a string: some literal text of a prompt; the placeholder
\* {{id}}; the text a node's handler returned as data.text; and the three
\* literals of lines 445-449
Literal == [t |-> "text", id |-> <<>>]
Placeholder(id) == [t |-> "{{id}}", id |-> id]
OutputText(id) == [t |-> "output", id |-> id]
ContextLabel == [t |-> "Previous result:\n", id |-> <<>>]
BlankLine == [t |-> "\n\n", id |-> <<>>]
BasedOn == [t |-> "\n\nBased on the above context:\n", id |-> <<>>]

\* previousResults[id], for a map given as its entries in insertion order
HasResult(prev, id) == \E i \in DOMAIN prev : prev[i].id = id
ResultOf(prev, id) == prev[CHOOSE i \in DOMAIN prev : prev[i].id = id]

\* mutant: a placeholder without a result is replaced by the empty string
RECURSIVE ProcessPromptTemplate_BlankMissing(_, _)
ProcessPromptTemplate_BlankMissing(prompt, prev) ==
  IF prompt = <<>> THEN <<>>
  ELSE LET piece == Head(prompt)
           rest == ProcessPromptTemplate_BlankMissing(Tail(prompt), prev)
       IN  IF piece.t = "{{id}}" /\ IsWord(piece.id)
           THEN IF HasResult(prev, piece.id) /\ ResultOf(prev, piece.id).data
                THEN ResultOf(prev, piece.id).text \o rest
                ELSE rest
           ELSE <<piece>> \o rest

\* processPromptTemplate (lines 409-416): every match of /\{\{(\w+)\}\}/g
\* whose id has a result with data is replaced by data.text || '', every
\* other match by itself; what does not match stays
RECURSIVE ProcessPromptTemplate(_, _)
ProcessPromptTemplate(prompt, prev) ==
  IF prompt = <<>> THEN <<>>
  ELSE LET piece == Head(prompt)
           rest == ProcessPromptTemplate(Tail(prompt), prev)
       IN  IF piece.t = "{{id}}" /\ IsWord(piece.id)
           THEN IF HasResult(prev, piece.id) /\ ResultOf(prev, piece.id).data
                THEN ResultOf(prev, piece.id).text \o rest
                ELSE <<piece>> \o rest
           ELSE <<piece>> \o rest

\* mutant: the entries are listed in insertion order whatever the keys
ObjectEntries_InsertionOrder(prev) == prev

\* the entries of prev whose positions are in S, by ascending array index
RECURSIVE AscendingIndex(_, _)
AscendingIndex(prev, S) ==
  IF S = {} THEN <<>>
  ELSE LET m == CHOOSE i \in S :
                  \A j \in S : IndexValue(prev[i].id) <= IndexValue(prev[j].id)
       IN  <<prev[m]>> \o AscendingIndex(prev, S \ {m})

\* Object.entries(previousResults) (line 438): the array-index keys in
\* ascending order, then the other keys in insertion order
ObjectEntries(prev) ==
  AscendingIndex(prev, {i \in DOMAIN prev : IsArrayIndex(prev[i].id)})
    \o SelectSeq(prev, LAMBDA r : ~IsArrayIndex(r.id))

\* incomingEdges.map(...).join('\n\n') (lines 445-447)
RECURSIVE ContextOf(_)
ContextOf(entries) ==
  IF entries = <<>> THEN <<>>
  ELSE (<<ContextLabel>> \o Head(entries).text)
         \o (IF Tail(entries) = <<>> THEN <<>> ELSE <<BlankLine>>)
         \o ContextOf(Tail(entries))

\* parameters.prompt as executeTask leaves it (lines 433-451)
EffectivePrompt(n, prev) ==
  IF n.prompt = <<>>
  THEN n.prompt
  ELSE LET prompt == ProcessPromptTemplate(n.prompt, prev)
           incomingEdges ==
             IF n.targetHandle THEN <<>>
             ELSE SelectSeq(ObjectEntries(prev),
                            LAMBDA r : n.id # r.id /\ r.data /\ r.text # <<>>)
       IN  IF Len(incomingEdges) > 0
           THEN (ContextOf(incomingEdges) \o <<BasedOn>>) \o prompt
           ELSE prompt

\* no operation of the store has been called
NoOp == [op |-> "none", before |-> [nodes |-> <<>>, edges |-> {}], changed |-> FALSE]

\* fetchWorkflowResults has not returned
NotFetched == [status |-> "no call", map |-> <<>>]

\* JSON.stringify of a TaskResult of the model: the members that are
\* defined, in the order of the object's keys (a successful result has no
\* error member) ...
JsonStringify(r) ==
  <<<<"success", r.success>>>>
    \o (IF r.error = "" THEN <<>> ELSE <<<<"error", r.error>>>>)
    \o <<<<"nodeId", r.nodeId>>, <<"executionId", r.executionId>>>>
\* ... and JSON.parse of such a text: an absent member reads as undefined
JsonMember(text, key, undefined) ==
  IF \E i \in DOMAIN text : text[i][1] = key
  THEN text[CHOOSE i \in DOMAIN text : text[i][1] = key][2]
  ELSE undefined
JsonParse(text) ==
  [success |-> JsonMember(text, "success", FALSE),
   error |-> JsonMember(text, "error", ""),
   nodeId |-> JsonMember(text, "nodeId", NoNode),
   executionId |-> JsonMember(text, "executionId", "")]

\* executeTask has not been called; it has not built its parameters
NoTaskNode == [id |-> <<>>, prompt |-> <<>>, targetHandle |-> FALSE]
NotBuilt == [built |-> FALSE, prompt |-> <<>>]

(* ------------------------------------------------------------------ Init *)
InitRun ==
  /\ pc = "idle"
  /\ nodes = <<>>
  /\ edges = {}
  /\ userId = FALSE
  /\ queue = <<>>
  /\ enqueued = {}
  /\ executed = {}
  /\ results = <<>>
  /\ node = NoNode
  /\ result = NoResult
  /\ validEdges = {}
  /\ runDoc = NoRunDoc
  /\ nodeDocs = <<>>
  /\ toasts = {}
  /\ calls = <<>>
  /\ returned = FALSE
  /\ nodeData = <<>>
  /\ error = NoError
  /\ apiKey = FALSE
  /\ handlerCalls = {}
  /\ providerCalls = <<>>
  /\ enqueueLog = <<>>
  /\ observed = NoObservation

\* executeTask's prompt building is not modelled
InitNoTask ==
  /\ taskNode = NoTaskNode
  /\ previousResults = <<>>
  /\ parameters = NotBuilt

\* fetchWorkflowResults has not been called
InitNoFetch == fetched = NotFetched

\* the workflow store as created (workflowStore.ts lines 234-244)
InitStore ==
  /\ store = [nodes |-> <<>>, edges |-> {}]
  /\ history = <<>>
  /\ historyIndex = -1
  /\ lastOp = NoOp
  /\ now = 1

\* no key passed, no key set
NoKey == "none"
\* the API keys callers pass in options.openAIApiKey
Keys == {"k1", "k2"}
\* the calls of executeWorkflow that may overlap
RunIds == 1..MaxRuns
NotCalled == [pc |-> "idle", userId |-> FALSE, key |-> NoKey, left |-> 0]

\* aiTaskHandler as constructed (part_010 line 477: options undefined), no
\* call of executeWorkflow made
InitKeys ==
  /\ handlerOptions = NoKey
  /\ runs = [r \in RunIds |-> NotCalled]
  /\ providerKeys = {}

\* an optional value: given, or absent (undefined)
Given(v) == [given |-> TRUE, value |-> v]
AbsentNumber == [given |-> FALSE, value |-> 0]
AbsentText == [given |-> FALSE, value |-> <<>>]
AbsentName == [given |-> FALSE, value |-> ""]
\* no call of openai.chat.completions.create made
NotSent == [sent |-> FALSE, model |-> "", max_tokens |-> 0, temperature |-> 0]

\* AITaskHandler.execute has not been called
InitNoRequest ==
  /\ taskParameters = [model |-> AbsentName, maxTokens |-> AbsentNumber,
                       temperature |-> AbsentNumber]
  /\ env = [MAX_TOKENS |-> AbsentText, DEFAULT_TEMPERATURE |-> AbsentText]
  /\ request = NotSent

\* the workflow store as created: nobody logged in, no workflow loaded
\* (workflowStore.ts lines 235-238), no request sent
InitNoUser ==
  /\ user = FALSE
  /\ currentWorkflowId = 0
  /\ pending = <<>>

\* the session as created, with no workflow document in the database
InitSession ==
  /\ InitNoUser
  /\ documents = <<>>

InitElsewhere == InitKeys /\ InitNoRequest /\ InitSession

\* before a call of executeWorkflow
Init ==
  /\ InitRun
  /\ InitNoTask
  /\ InitNoFetch
  /\ InitStore
  /\ InitElsewhere


(* ------------------------------------------------- the arguments drawn *)
\* the nodes arrays the caller may pass: <<1, ..., n>>
NodeArrays == {[i \in 1..n |-> i] : n \in 0..MaxNodes}

\* the sets of at most k edges of EdgeSpace(n, conds)
RECURSIVE EdgeSetsUpTo(_, _, _)
EdgeSetsUpTo(k, n, conds) ==
  IF k = 0 THEN {{}}
  ELSE LET smaller == EdgeSetsUpTo(k - 1, n, conds)
       IN  smaller \cup {s \cup {e} : s \in smaller, e \in EdgeSpace(n, conds)}

\* the join graphs: s -> t, s -> a, a -> t over three nodes of the array,
\* with any conditions of conds
JoinEdgeArrays(n, conds) ==
  {{[source |-> s, target |-> t, condition |-> c1],
    [source |-> s, target |-> a, condition |-> c2],
    [source |-> a, target |-> t, condition |-> c3]} :
     <<s, a, t, c1, c2, c3>> \in
       {x \in (1..n) \X (1..n) \X (1..n) \X conds \X conds \X conds :
          x[1] # x[2] /\ x[1] # x[3] /\ x[2] # x[3]}}

\* the edges arrays the caller may pass with a nodes array of n nodes
EdgeArrays(n, conds) == EdgeSetsUpTo(MaxEdges, n, conds) \cup JoinEdgeArrays(n, conds)

\* the graphs the caller may pass, with conditions in conds: for each nodes
\* array, the edges arrays that may come with it
Graphs(conds) == [ns \in NodeArrays |-> EdgeArrays(Len(ns), conds)]

\* the small nodes arrays
SmallNodeArrays == {[i \in 1..n |-> i] : n \in 0..MaxSmallNodes}

\* the graphs of a small nodes array and at most k edges
SmallGraphs(k, conds) ==
  [ns \in SmallNodeArrays |-> EdgeSetsUpTo(k, Len(ns), conds)]

(* --------------------------------------------------------------- actions *)
\* an await inside the try block rejects: the catch block up to its await
\* (lines 282-302): toast.error, then updateDocument is sent.  node and
\* result are block-scoped to the loop body and are gone.
Throw ==
  /\ pc' = "catch"
  /\ toasts' = toasts \cup {"Workflow execution failed"}
  /\ node' = NoNode
  /\ result' = NoResult

\* executeWorkflow is called with a graph of graphs and with
\* options.openAIApiKey given or not as keys allows: lines 173-196, up to
\* the first await
Call(graphs, keys) ==
  /\ pc = "idle"
  /\ \E ns \in DOMAIN graphs, uid \in BOOLEAN, key \in keys : \E es \in graphs[ns] :
       LET startNode == FindStartNode(ns, es) IN
       /\ nodes' = ns
       /\ nodeData' = [i \in 1..Len(ns) |-> ""]
       /\ edges' = es
       /\ userId' = uid
       /\ IF startNode = NoNode
          THEN /\ toasts' = toasts \cup {"No starting node found in the workflow"}
               /\ pc' = "done"
               /\ returned' = TRUE
               /\ UNCHANGED <<queue, enqueued, enqueueLog, apiKey>>
          ELSE IF ~uid
          THEN /\ toasts' = toasts \cup {"User must be logged in to execute workflows"}
               /\ pc' = "done"
               /\ returned' = TRUE
               /\ UNCHANGED <<queue, enqueued, enqueueLog, apiKey>>
          ELSE /\ apiKey' = IF key THEN TRUE ELSE apiKey
               /\ queue' = <<[node |-> startNode, dependencies |-> {}]>>
               /\ enqueued' = {startNode}
               /\ enqueueLog' = <<startNode>>
               /\ pc' = "creating"
               /\ UNCHANGED <<toasts, returned>>
  /\ UNCHANGED <<executed, results, node, result, validEdges, runDoc, nodeDocs, calls>>
  /\ UNCHANGED <<error, handlerCalls, providerCalls, observed>>
  /\ UNCHANGED outside

\* the call with edges as the editor makes them and an API key
Start == Call(Graphs(EdgeConditions), {TRUE})

\* the call with edges of any condition value, absent and unknown included
StartAnyCondition == Call(SmallGraphs(MaxEdges, Conditions), {TRUE})

\* the call with a small graph and an API key
StartSmall == Call(SmallGraphs(MaxSmallEdges, EdgeConditions), {TRUE})

\* the call with a small graph, with or without an API key
StartWithOrWithoutKey == Call(SmallGraphs(MaxSmallEdges, EdgeConditions), BOOLEAN)

\* databases.createDocument of the run document resolves (lines 200-220);
\* then every node's data is stamped with the executionId (lines 223-228)
CreateRunOk ==
  /\ pc = "creating"
  /\ runDoc' = [status |-> "running", totalNodes |-> Len(nodes), nodesExecuted |-> 0,
                successCount |-> 0, errorCount |-> 0, error |-> ""]
  /\ nodeData' = [i \in 1..Len(nodes) |-> ExecutionId]
  /\ pc' = "loop"
  /\ UNCHANGED <<nodes, edges, userId, queue, enqueued, executed, results, node,
                 result, validEdges, nodeDocs, toasts, calls, returned>>
  /\ UNCHANGED <<error, apiKey, handlerCalls, providerCalls, enqueueLog, observed>>
  /\ UNCHANGED outside

\* ... or rejects
CreateRunFail ==
  /\ pc = "creating"
  /\ Throw
  /\ error' = "create"
  /\ UNCHANGED <<nodes, edges, userId, queue, enqueued, executed, results,
                 validEdges, runDoc, nodeDocs, calls, returned>>
  /\ UNCHANGED <<nodeData, apiKey, handlerCalls, providerCalls, enqueueLog, observed>>
  /\ UNCHANGED outside

\* mutant: the queue is a stack, the item pushed last is popped
LoopStep_PopLast ==
  /\ pc = "loop"
  /\ queue # <<>>
  /\ LET item == queue[Len(queue)] IN
     IF ~(item.dependencies \subseteq executed)
     THEN UNCHANGED <<queue, pc, node, calls>>
     ELSE /\ queue' = SubSeq(queue, 1, Len(queue) - 1)
          /\ node' = item.node
          /\ calls' = Append(calls, item.node)
          /\ pc' = "task"
  /\ UNCHANGED <<nodes, edges, userId, enqueued, executed, results, result,
                 validEdges, runDoc, nodeDocs, toasts, returned>>
  /\ UNCHANGED <<nodeData, error, apiKey, handlerCalls, providerCalls, enqueueLog,
                 observed>>
  /\ UNCHANGED outside

\* one iteration of the while loop up to the task call (lines 230-239): the
\* head is popped; with an unfinished dependency it is pushed back
LoopStep ==
  /\ pc = "loop"
  /\ queue # <<>>
  /\ LET item == Head(queue) IN
     IF ~(item.dependencies \subseteq executed)
     THEN /\ queue' = Append(Tail(queue), item)
          /\ UNCHANGED <<pc, node, calls>>
     ELSE /\ queue' = Tail(queue)
          /\ node' = item.node
          /\ calls' = Append(calls, item.node)
          /\ pc' = "task"
  /\ UNCHANGED <<nodes, edges, userId, enqueued, executed, results, result,
                 validEdges, runDoc, nodeDocs, toasts, returned>>
  /\ UNCHANGED <<nodeData, error, apiKey, handlerCalls, providerCalls, enqueueLog,
                 observed>>
  /\ UNCHANGED outside

\* the queue is empty: the loop ends and the final update is sent
\* (lines 262-280)
LoopExit ==
  /\ pc = "loop"
  /\ queue = <<>>
  /\ pc' = "finalizing"
  /\ UNCHANGED <<nodes, edges, userId, queue, enqueued, executed, results, node,
                 result, validEdges, runDoc, nodeDocs, toasts, calls, returned>>
  /\ UNCHANGED <<nodeData, error, apiKey, handlerCalls, providerCalls, enqueueLog,
                 observed>>
  /\ UNCHANGED outside

\* mutant: the result keeps the metadata its producer gave it (executionId
\* '' at lines 464-468 and in AITaskHandler.execute), the scheduler does
\* not stamp it
TaskResultOf_NotStamped(outcome, nodeId) ==
  [success |-> outcome = "success",
   error |-> CASE outcome = "success" -> ""
               [] outcome = "nohandler" -> "No handler for task type"
               [] outcome = "nokey" -> "OpenAI API key is not configured"
               [] outcome = "provider" -> "provider error"
               [] OTHER -> "task failed",
   nodeId |-> nodeId,
   executionId |-> ""]

\* the TaskResult a call of executeTask returns, stamped by lines 240-241.
\* outcome: "success"; "error" (a handler's own failure); "nohandler"
\* (lines 460-470); "nokey" and "provider" (AITaskHandler.execute)
TaskResultOf(outcome, nodeId) ==
  [success |-> outcome = "success",
   error |-> CASE outcome = "success" -> ""
               [] outcome = "nohandler" -> "No handler for task type"
               [] outcome = "nokey" -> "OpenAI API key is not configured"
               [] outcome = "provider" -> "provider error"
               [] OTHER -> "task failed",
   nodeId |-> nodeId,
   executionId |-> ExecutionId]

\* the node's type has a registered handler, and handler.execute resolves
\* (lines 459, 472-473, 239-241) ...
TaskReturn ==
  /\ pc = "task"
  /\ \E outcome \in TaskOutcomes \ {"throw"} :
       result' = TaskResultOf(outcome, node)
  /\ handlerCalls' = handlerCalls \cup {node}
  /\ pc' = "storing"
  /\ UNCHANGED <<nodes, edges, userId, queue, enqueued, executed, results, node,
                 validEdges, runDoc, nodeDocs, toasts, calls, returned>>
  /\ UNCHANGED <<nodeData, error, apiKey, providerCalls, enqueueLog, observed>>
  /\ UNCHANGED outside

\* ... or rejects: executeTask has no try/catch around handler.execute
TaskThrow ==
  /\ pc = "task"
  /\ "throw" \in TaskOutcomes
  /\ handlerCalls' = handlerCalls \cup {node}
  /\ Throw
  /\ error' = "task"
  /\ UNCHANGED <<nodes, edges, userId, queue, enqueued, executed, results,
                 validEdges, runDoc, nodeDocs, calls, returned>>
  /\ UNCHANGED <<nodeData, apiKey, providerCalls, enqueueLog, observed>>
  /\ UNCHANGED outside

\* mutant: a missing handler is an exception
TaskNoHandler_Throws ==
  /\ pc = "task"
  /\ Throw
  /\ error' = "task"
  /\ UNCHANGED <<nodes, edges, userId, queue, enqueued, executed, results,
                 validEdges, runDoc, nodeDocs, calls, returned>>
  /\ UNCHANGED <<nodeData, apiKey, handlerCalls, providerCalls, enqueueLog, observed>>
  /\ UNCHANGED outside

\* the node's type has no registered handler: executeTask returns the
\* "No handler for task type" result (lines 459-470)
TaskNoHandler ==
  /\ pc = "task"
  /\ result' = TaskResultOf("nohandler", node)
  /\ pc' = "storing"
  /\ UNCHANGED <<nodes, edges, userId, queue, enqueued, executed, results, node,
                 validEdges, runDoc, nodeDocs, toasts, calls, returned>>
  /\ UNCHANGED <<nodeData, error, apiKey, handlerCalls, providerCalls, enqueueLog,
                 observed>>
  /\ UNCHANGED outside

\* mutant: without an API key the handler throws, and an error of the
\* provider is not caught
AITaskReturn_Throws ==
  /\ pc = "task"
  /\ handlerCalls' = handlerCalls \cup {node}
  /\ IF ~apiKey
     THEN /\ Throw
          /\ error' = "task"
          /\ pc' = "catch"
          /\ UNCHANGED providerCalls
     ELSE /\ providerCalls' = Append(providerCalls, node)
          /\ \E outcome \in {"success", "provider"} :
               IF outcome = "success"
               THEN /\ result' = TaskResultOf(outcome, node)
                    /\ pc' = "storing"
                    /\ UNCHANGED <<node, toasts, error>>
               ELSE /\ Throw
                    /\ error' = "task"
  /\ UNCHANGED <<nodes, edges, userId, queue, enqueued, executed, results,
                 validEdges, runDoc, nodeDocs, calls, returned>>
  /\ UNCHANGED <<nodeData, apiKey, enqueueLog, observed>>
  /\ UNCHANGED outside

\* mutant: the handler calls the provider a second time when the first
\* call failed
AITaskReturn_Retries ==
  /\ pc = "task"
  /\ handlerCalls' = handlerCalls \cup {node}
  /\ IF ~apiKey
     THEN /\ result' = TaskResultOf("nokey", node)
          /\ UNCHANGED providerCalls
     ELSE \E outcome \in {"success", "provider"} :
            /\ result' = TaskResultOf(outcome, node)
            /\ providerCalls' = IF outcome = "success"
                                THEN Append(providerCalls, node)
                                ELSE Append(Append(providerCalls, node), node)
  /\ pc' = "storing"
  /\ UNCHANGED <<nodes, edges, userId, queue, enqueued, executed, results, node,
                 validEdges, runDoc, nodeDocs, toasts, calls, returned>>
  /\ UNCHANGED <<nodeData, error, apiKey, enqueueLog, observed>>
  /\ UNCHANGED outside

\* the node's type is 'aiTask': AITaskHandler.execute.  Without an API key
\* it returns a failed result at once; with one it calls the provider and
\* returns the completion, or the failed result of its catch block.
AITaskReturn ==
  /\ pc = "task"
  /\ handlerCalls' = handlerCalls \cup {node}
  /\ IF ~apiKey
     THEN /\ result' = TaskResultOf("nokey", node)
          /\ UNCHANGED providerCalls
     ELSE /\ providerCalls' = Append(providerCalls, node)
          /\ \E outcome \in {"success", "provider"} :
               result' = TaskResultOf(outcome, node)
  /\ pc' = "storing"
  /\ UNCHANGED <<nodes, edges, userId, queue, enqueued, executed, results, node,
                 validEdges, runDoc, nodeDocs, toasts, calls, returned>>
  /\ UNCHANGED <<nodeData, error, apiKey, enqueueLog, observed>>
  /\ UNCHANGED outside

\* mutant: executed.add(node.id) of line 247 is missing, so the nodes
\* pushed at lines 254-259 await a node that never counts as executed
StoreOk_NotMarkedExecuted ==
  /\ pc = "storing"
  /\ nodeDocs' = Append(nodeDocs, [nodeId |-> node, executionId |-> ExecutionId,
                                   status |-> IF result.success THEN "success" ELSE "error",
                                   results |-> result])
  /\ results' = [k \in DOMAIN results \cup {node} |->
                   IF k = node THEN result ELSE results[k]]
  /\ executed' = executed
  /\ LET condition == IF result.success THEN "success" ELSE "error"
         nextNodes == FindNextNodes(node, edges, nodes, condition)
         next == QueueNext(nextNodes, node, queue, enqueued)
     IN  /\ validEdges' = ValidEdges(node, edges, condition)
         /\ queue' = next[1]
         /\ enqueued' = next[2]
         /\ enqueueLog' = enqueueLog \o
              [i \in 1..(Len(next[1]) - Len(queue)) |-> next[1][Len(queue) + i].node]
  /\ pc' = "loop"
  /\ UNCHANGED <<nodes, edges, userId, node, result, runDoc, toasts, calls, returned>>
  /\ UNCHANGED <<nodeData, error, apiKey, handlerCalls, providerCalls, observed>>
  /\ UNCHANGED outside

\* storeWorkflowResult resolves; the rest of the iteration (lines 244-259)
StoreOk ==
  /\ pc = "storing"
  /\ nodeDocs' = Append(nodeDocs, [nodeId |-> node, executionId |-> ExecutionId,
                                   status |-> IF result.success THEN "success" ELSE "error",
                                   results |-> result])
  /\ results' = [k \in DOMAIN results \cup {node} |->
                   IF k = node THEN result ELSE results[k]]
  /\ executed' = executed \cup {node}
  /\ LET condition == IF result.success THEN "success" ELSE "error"
         nextNodes == FindNextNodes(node, edges, nodes, condition)
         next == QueueNext(nextNodes, node, queue, enqueued)
     IN  /\ validEdges' = ValidEdges(node, edges, condition)
         /\ queue' = next[1]
         /\ enqueued' = next[2]
         /\ enqueueLog' = enqueueLog \o
              [i \in 1..(Len(next[1]) - Len(queue)) |-> next[1][Len(queue) + i].node]
  /\ pc' = "loop"
  /\ UNCHANGED <<nodes, edges, userId, node, result, runDoc, toasts, calls, returned>>
  /\ UNCHANGED <<nodeData, error, apiKey, handlerCalls, providerCalls, observed>>
  /\ UNCHANGED outside

\* mutant: the rejection of storeWorkflowResult is swallowed and the
\* iteration goes on (lines 246-259) without a per-node document
StoreFail_BestEffort ==
  /\ pc = "storing"
  /\ results' = [k \in DOMAIN results \cup {node} |->
                   IF k = node THEN result ELSE results[k]]
  /\ executed' = executed \cup {node}
  /\ LET condition == IF result.success THEN "success" ELSE "error"
         nextNodes == FindNextNodes(node, edges, nodes, condition)
         next == QueueNext(nextNodes, node, queue, enqueued)
     IN  /\ validEdges' = ValidEdges(node, edges, condition)
         /\ queue' = next[1]
         /\ enqueued' = next[2]
         /\ enqueueLog' = enqueueLog \o
              [i \in 1..(Len(next[1]) - Len(queue)) |-> next[1][Len(queue) + i].node]
  /\ pc' = "loop"
  /\ UNCHANGED <<nodes, edges, userId, node, result, runDoc, nodeDocs, toasts, calls,
                 returned>>
  /\ UNCHANGED <<nodeData, error, apiKey, handlerCalls, providerCalls, observed>>
  /\ UNCHANGED outside

\* storeWorkflowResult rethrows the store's error (lines 353-356)
StoreFail ==
  /\ pc = "storing"
  /\ Throw
  /\ error' = "store"
  /\ UNCHANGED <<nodes, edges, userId, queue, enqueued, executed, results,
                 validEdges, runDoc, nodeDocs, calls, returned>>
  /\ UNCHANGED <<nodeData, apiKey, handlerCalls, providerCalls, enqueueLog, observed>>
  /\ UNCHANGED outside

\* mutant: the final update is written and then the try block throws
FinalizeOk_ThrowsAfterWrite ==
  /\ pc = "finalizing"
  /\ LET successCount == SuccessCount(results)
         errorCount == ErrorCount(results)
     IN  runDoc' = [runDoc EXCEPT
                      !.status = IF errorCount = 0 THEN "completed"
                                 ELSE "completed_with_errors",
                      !.nodesExecuted = Cardinality(executed),
                      !.successCount = successCount,
                      !.errorCount = errorCount,
                      !.error = IF errorCount > 0 THEN "Some nodes failed to execute"
                                ELSE ""]
  /\ Throw
  /\ error' = "final"
  /\ UNCHANGED <<nodes, edges, userId, queue, enqueued, executed, results,
                 validEdges, nodeDocs, calls, returned>>
  /\ UNCHANGED <<nodeData, apiKey, handlerCalls, providerCalls, enqueueLog, observed>>
  /\ UNCHANGED outside

\* mutant: a run that left nodes unexecuted is recorded as failed
FinalizeOk_PartialIsFailed ==
  /\ pc = "finalizing"
  /\ LET successCount == SuccessCount(results)
         errorCount == ErrorCount(results)
     IN  runDoc' = [runDoc EXCEPT
                      !.status = IF Cardinality(executed) < Len(nodes) THEN "failed"
                                 ELSE IF errorCount = 0 THEN "completed"
                                 ELSE "completed_with_errors",
                      !.nodesExecuted = Cardinality(executed),
                      !.successCount = successCount,
                      !.errorCount = errorCount,
                      !.error = IF errorCount > 0 THEN "Some nodes failed to execute"
                                ELSE ""]
  /\ pc' = "done"
  /\ returned' = TRUE
  /\ UNCHANGED <<nodes, edges, userId, queue, enqueued, executed, results, node,
                 result, validEdges, nodeDocs, toasts, calls>>
  /\ UNCHANGED <<nodeData, error, apiKey, handlerCalls, providerCalls, enqueueLog,
                 observed>>
  /\ UNCHANGED outside

\* the final updateDocument resolves (lines 266-280), then return results
FinalizeOk ==
  /\ pc = "finalizing"
  /\ LET successCount == SuccessCount(results)
         errorCount == ErrorCount(results)
     IN  runDoc' = [runDoc EXCEPT
                      !.status = IF errorCount = 0 THEN "completed"
                                 ELSE "completed_with_errors",
                      !.nodesExecuted = Cardinality(executed),
                      !.successCount = successCount,
                      !.errorCount = errorCount,
                      !.error = IF errorCount > 0 THEN "Some nodes failed to execute"
                                ELSE ""]
  /\ pc' = "done"
  /\ returned' = TRUE
  /\ UNCHANGED <<nodes, edges, userId, queue, enqueued, executed, results, node,
                 result, validEdges, nodeDocs, toasts, calls>>
  /\ UNCHANGED <<nodeData, error, apiKey, handlerCalls, providerCalls, enqueueLog,
                 observed>>
  /\ UNCHANGED outside

\* ... or rejects
FinalizeFail ==
  /\ pc = "finalizing"
  /\ Throw
  /\ error' = "final"
  /\ UNCHANGED <<nodes, edges, userId, queue, enqueued, executed, results,
                 validEdges, runDoc, nodeDocs, calls, returned>>
  /\ UNCHANGED <<nodeData, apiKey, handlerCalls, providerCalls, enqueueLog, observed>>
  /\ UNCHANGED outside

\* the updateDocument of the catch block resolves (lines 286-302); an update
\* of a document that was never created is rejected by the store
CatchUpdateOk ==
  /\ pc = "catch"
  /\ runDoc.status # "none"
  /\ runDoc' = [runDoc EXCEPT
                  !.status = "failed",
                  !.nodesExecuted = Cardinality(executed),
                  !.successCount = SuccessCount(results),
                  !.errorCount = ErrorCount(results) + 1,
                  !.error = error]
  /\ pc' = "done"
  /\ returned' = TRUE
  /\ UNCHANGED <<nodes, edges, userId, queue, enqueued, executed, results, node,
                 result, validEdges, nodeDocs, toasts, calls>>
  /\ UNCHANGED <<nodeData, error, apiKey, handlerCalls, providerCalls, enqueueLog,
                 observed>>
  /\ UNCHANGED outside

\* mutant: the rejection of the catch block's update is rethrown to the
\* caller
CatchUpdateFail_Rethrows ==
  /\ pc = "catch"
  /\ pc' = "done"
  /\ returned' = FALSE
  /\ UNCHANGED <<nodes, edges, userId, queue, enqueued, executed, results, node,
                 result, validEdges, runDoc, nodeDocs, toasts, calls>>
  /\ UNCHANGED <<nodeData, error, apiKey, handlerCalls, providerCalls, enqueueLog,
                 observed>>
  /\ UNCHANGED outside

\* ... or rejects, which is logged and swallowed (lines 303-305); then
\* return results
CatchUpdateFail ==
  /\ pc = "catch"
  /\ pc' = "done"
  /\ returned' = TRUE
  /\ UNCHANGED <<nodes, edges, userId, queue, enqueued, executed, results, node,
                 result, validEdges, runDoc, nodeDocs, toasts, calls>>
  /\ UNCHANGED <<nodeData, error, apiKey, handlerCalls, providerCalls, enqueueLog,
                 observed>>
  /\ UNCHANGED outside

\* the caller keeps what the call returned and the state its run record
\* ended in, and calls executeWorkflow again: every local of the finished
\* call is gone, aiTaskHandler.options (module state) stays
CallAgain ==
  /\ pc = "done"
  /\ observed = NoObservation
  /\ observed' = [returned |-> results, status |-> runDoc.status]
  /\ pc' = "idle"
  /\ nodes' = <<>>
  /\ edges' = {}
  /\ userId' = FALSE
  /\ queue' = <<>>
  /\ enqueued' = {}
  /\ executed' = {}
  /\ results' = <<>>
  /\ node' = NoNode
  /\ result' = NoResult
  /\ validEdges' = {}
  /\ runDoc' = NoRunDoc
  /\ nodeDocs' = <<>>
  /\ toasts' = {}
  /\ calls' = <<>>
  /\ returned' = FALSE
  /\ nodeData' = <<>>
  /\ error' = NoError
  /\ handlerCalls' = {}
  /\ providerCalls' = <<>>
  /\ enqueueLog' = <<>>
  /\ UNCHANGED apiKey
  /\ UNCHANGED outside

Next ==
  \/ Start
  \/ CreateRunOk
  \/ CreateRunFail
  \/ LoopStep
  \/ LoopExit
  \/ TaskReturn
  \/ TaskThrow
  \/ StoreOk
  \/ StoreFail
  \/ FinalizeOk
  \/ FinalizeFail
  \/ CatchUpdateOk
  \/ CatchUpdateFail

Spec == Init /\ [][Next]_vars

\* the same run, called with a small nodes array and edges of any condition
\* value
NextAnyCondition ==
  \/ StartAnyCondition
  \/ CreateRunOk
  \/ CreateRunFail
  \/ LoopStep
  \/ LoopExit
  \/ TaskReturn
  \/ TaskThrow
  \/ StoreOk
  \/ StoreFail
  \/ FinalizeOk
  \/ FinalizeFail
  \/ CatchUpdateOk
  \/ CatchUpdateFail

SpecAnyCondition == Init /\ [][NextAnyCondition]_vars

\* the run of a small graph with the handlers the module registers itself
\* (line 484): a node is of type 'aiTask', run by the AITaskHandler, or of a
\* type without a handler
NextTaskTypes ==
  \/ StartWithOrWithoutKey
  \/ CreateRunOk
  \/ CreateRunFail
  \/ LoopStep
  \/ LoopExit
  \/ TaskNoHandler
  \/ AITaskReturn
  \/ StoreOk
  \/ StoreFail
  \/ FinalizeOk
  \/ FinalizeFail
  \/ CatchUpdateOk
  \/ CatchUpdateFail

SpecTaskTypes == Init /\ [][NextTaskTypes]_vars

\* two calls of executeWorkflow, one after the other, each with a small
\* graph
NextTwoCalls ==
  \/ StartSmall
  \/ CreateRunOk
  \/ CreateRunFail
  \/ LoopStep
  \/ LoopExit
  \/ TaskReturn
  \/ TaskThrow
  \/ StoreOk
  \/ StoreFail
  \/ FinalizeOk
  \/ FinalizeFail
  \/ CatchUpdateOk
  \/ CatchUpdateFail
  \/ CallAgain

SpecTwoCalls == Init /\ [][NextTwoCalls]_vars

\* the graphs with a cycle behind the start node: s -> a, a -> b, b -> a
\* over nodes of the array, s not on the cycle, with any conditions of conds
\* (a = b is the self-loop a -> a)
CycleEdgeArrays(n, conds) ==
  {{[source |-> s, target |-> a, condition |-> c1],
    [source |-> a, target |-> b, condition |-> c2],
    [source |-> b, target |-> a, condition |-> c3]} :
     <<s, a, b, c1, c2, c3>> \in
       {x \in (1..n) \X (1..n) \X (1..n) \X conds \X conds \X conds :
          x[1] # x[2] /\ x[1] # x[3]}}

\* the graphs of a nodes array with few edges or with such a cycle
CyclicGraphs ==
  [ns \in NodeArrays |->
     EdgeSetsUpTo(MaxSmallEdges, Len(ns), EdgeConditions)
       \cup CycleEdgeArrays(Len(ns), EdgeConditions)]

\* the run of such a graph, in which the loop's own code runs on and every
\* awaited task call and store call returns (resolves or rejects)
StartCyclic == Call(CyclicGraphs, {TRUE})

NextTermination ==
  \/ StartCyclic
  \/ CreateRunOk
  \/ CreateRunFail
  \/ LoopStep
  \/ LoopExit
  \/ TaskReturn
  \/ TaskThrow
  \/ StoreOk
  \/ StoreFail
  \/ FinalizeOk
  \/ FinalizeFail
  \/ CatchUpdateOk
  \/ CatchUpdateFail

Fairness ==
  /\ WF_vars(LoopStep)
  /\ WF_vars(LoopExit)
  /\ WF_vars(TaskReturn \/ TaskThrow)
  /\ WF_vars(StoreOk \/ StoreFail)

SpecTermination == Init /\ [][NextTermination]_vars /\ Fairness

(* --------------------------------------------------- fetchWorkflowResults *)
\* the documents of the collection whose executionId is that of the run, as
\* databases.listDocuments returns them: the run's own document (created
\* with the same executionId attribute, lines 200-220; it has no nodeId and
\* its results attribute is '{}', or the map of all results once an update
\* was written) and the per-node documents
RunDocuments ==
  (IF runDoc.status = "none" THEN <<>>
   ELSE <<[nodeId |-> NoNode, run |-> TRUE,
           results |-> IF runDoc.status = "running" THEN <<>> ELSE results]>>)
  \o [i \in DOMAIN nodeDocs |->
        [nodeId |-> nodeDocs[i].nodeId, run |-> FALSE,
         results |-> JsonStringify(nodeDocs[i].results)]]

\* response.documents.reduce(...) (lines 378-382): acc[doc.nodeId] =
\* JSON.parse(doc.results), a later document replacing an earlier one of
\* the same nodeId.  The run document's nodeId is undefined (NoNode) and its
\* results parse to a map of results.
ReduceDocuments(docs) ==
  [k \in {docs[i].nodeId : i \in DOMAIN docs} |->
     LET last == CHOOSE i \in DOMAIN docs :
                   /\ docs[i].nodeId = k
                   /\ \A j \in DOMAIN docs : docs[j].nodeId = k => j <= i
     IN  IF docs[last].run
         THEN [map |-> docs[last].results]
         ELSE JsonParse(docs[last].results)]

\* fetchWorkflowResults(executionId) of the run, called once executeWorkflow
\* has returned: listDocuments resolves (lines 372-382) ...
FetchOk ==
  /\ pc = "done"
  /\ fetched = NotFetched
  /\ fetched' = [status |-> "returned", map |-> ReduceDocuments(RunDocuments)]
  /\ UNCHANGED <<pc, nodes, edges, userId, queue, enqueued, executed, results, node,
                 result, validEdges, runDoc, nodeDocs, toasts, calls, returned,
                 nodeData, error, apiKey, handlerCalls, providerCalls, enqueueLog,
                 observed>>
  /\ UNCHANGED <<promptVars, storeVars, elsewhere>>

\* ... or rejects: a toast, and {} is returned (lines 383-387)
FetchFail ==
  /\ pc = "done"
  /\ fetched = NotFetched
  /\ fetched' = [status |-> "failed", map |-> <<>>]
  /\ toasts' = toasts \cup {"Failed to retrieve workflow results"}
  /\ UNCHANGED <<pc, nodes, edges, userId, queue, enqueued, executed, results, node,
                 result, validEdges, runDoc, nodeDocs, calls, returned,
                 nodeData, error, apiKey, handlerCalls, providerCalls, enqueueLog,
                 observed>>
  /\ UNCHANGED <<promptVars, storeVars, elsewhere>>

\* a run of a small graph, and then the fetch of its results
NextFetch ==
  \/ StartSmall
  \/ CreateRunOk
  \/ CreateRunFail
  \/ LoopStep
  \/ LoopExit
  \/ TaskReturn
  \/ TaskThrow
  \/ StoreOk
  \/ StoreFail
  \/ FinalizeOk
  \/ FinalizeFail
  \/ CatchUpdateOk
  \/ CatchUpdateFail
  \/ FetchOk
  \/ FetchFail

SpecFetch == Init /\ [][NextFetch]_vars

(* ------------------------------------------------------ the workflow store *)
\* the elements of a sequence
Range(seq) == {seq[i] : i \in DOMAIN seq}

\* JSON.parse(JSON.stringify(x)) of the nodes and edges (line 263): a copy,
\* member by member, of the arrays and of their objects
DeepCopy(st) ==
  [nodes |-> [i \in DOMAIN st.nodes |-> st.nodes[i]],
   edges |-> {[id |-> e.id, source |-> e.source, target |-> e.target,
               condition |-> e.condition] : e \in st.edges}]

\* saveToHistory (lines 261-267): the history up to historyIndex, with a
\* copy of the current nodes and edges pushed; the new historyIndex is the
\* last index
SaveToHistory(st, hist, index) ==
  LET newHistory == Append(SubSeq(hist, 1, index + 1), DeepCopy(st))
  IN  [history |-> newHistory, historyIndex |-> Len(newHistory) - 1]

\* the operation, as noted in lastOp
Logged(op, changed) == [op |-> op, before |-> store, changed |-> changed]

\* setNodes([...nodes, newNode]) (lines 320-327), as the editor calls it
\* when a node is dropped on the canvas, the id of the node made from
\* Date.now(): nothing is saved to the history
SetNodes ==
  /\ now <= MaxCreated
  /\ store' = [store EXCEPT !.nodes = Append(@, now)]
  /\ now' = now + 1
  /\ lastOp' = Logged("setNodes", TRUE)
  /\ UNCHANGED <<history, historyIndex>>
  /\ UNCHANGED <<pc, nodes, edges, userId, queue, enqueued, executed, results, node,
                 result, validEdges, runDoc, nodeDocs, toasts, calls, returned,
                 nodeData, error, apiKey, handlerCalls, providerCalls, enqueueLog,
                 observed>>
  /\ UNCHANGED <<promptVars, fetched, elsewhere>>

\* setEdges([...edges, newEdge]) (lines 334-341), as the editor calls it
\* when two nodes are connected, the id of the edge made from Date.now() and
\* its condition 'always': nothing is saved to the history
SetEdges ==
  /\ now <= MaxCreated
  /\ \E source \in Range(store.nodes), target \in Range(store.nodes) :
       store' = [store EXCEPT !.edges = @ \cup
                   {[id |-> now, source |-> source, target |-> target,
                     condition |-> "always"]}]
  /\ now' = now + 1
  /\ lastOp' = Logged("setEdges", TRUE)
  /\ UNCHANGED <<history, historyIndex>>
  /\ UNCHANGED <<pc, nodes, edges, userId, queue, enqueued, executed, results, node,
                 result, validEdges, runDoc, nodeDocs, toasts, calls, returned,
                 nodeData, error, apiKey, handlerCalls, providerCalls, enqueueLog,
                 observed>>
  /\ UNCHANGED <<promptVars, fetched, elsewhere>>

\* updateEdge(edgeId, {condition}) (lines 349-355), called by the edge's
\* label with a condition other than the edge's: saveToHistory, then the
\* edge's data is merged with the new data
UpdateEdge ==
  /\ historyIndex + 2 <= MaxHistory
  /\ \E edge \in store.edges, condition \in EdgeConditions :
       LET saved == SaveToHistory(store, history, historyIndex)
       IN  /\ condition # edge.condition
           /\ history' = saved.history
           /\ historyIndex' = saved.historyIndex
           /\ store' = [store EXCEPT !.edges =
                          {IF e.id = edge.id THEN [e EXCEPT !.condition = condition]
                           ELSE e : e \in @}]
  /\ lastOp' = Logged("updateEdge", TRUE)
  /\ UNCHANGED now
  /\ UNCHANGED <<pc, nodes, edges, userId, queue, enqueued, executed, results, node,
                 result, validEdges, runDoc, nodeDocs, toasts, calls, returned,
                 nodeData, error, apiKey, handlerCalls, providerCalls, enqueueLog,
                 observed>>
  /\ UNCHANGED <<promptVars, fetched, elsewhere>>

\* deleteNode(nodeId) (lines 362-370), called by a node's delete button:
\* saveToHistory, then the node and the edges at it are filtered out
DeleteNode ==
  /\ historyIndex + 2 <= MaxHistory
  /\ \E nodeId \in Range(store.nodes) :
       LET saved == SaveToHistory(store, history, historyIndex)
       IN  /\ history' = saved.history
           /\ historyIndex' = saved.historyIndex
           /\ store' = [nodes |-> SelectSeq(store.nodes, LAMBDA n : n # nodeId),
                        edges |-> {e \in store.edges :
                                     e.source # nodeId /\ e.target # nodeId}]
  /\ lastOp' = Logged("deleteNode", TRUE)
  /\ UNCHANGED now
  /\ UNCHANGED <<pc, nodes, edges, userId, queue, enqueued, executed, results, node,
                 result, validEdges, runDoc, nodeDocs, toasts, calls, returned,
                 nodeData, error, apiKey, handlerCalls, providerCalls, enqueueLog,
                 observed>>
  /\ UNCHANGED <<promptVars, fetched, elsewhere>>

\* undo (lines 376-383): with historyIndex > 0, the nodes and edges of the
\* entry before; otherwise nothing
Undo ==
  /\ IF historyIndex > 0
     THEN /\ store' = history[(historyIndex - 1) + 1]
          /\ historyIndex' = historyIndex - 1
     ELSE UNCHANGED <<store, historyIndex>>
  /\ lastOp' = Logged("undo", historyIndex > 0)
  /\ UNCHANGED <<history, now>>
  /\ UNCHANGED <<pc, nodes, edges, userId, queue, enqueued, executed, results, node,
                 result, validEdges, runDoc, nodeDocs, toasts, calls, returned,
                 nodeData, error, apiKey, handlerCalls, providerCalls, enqueueLog,
                 observed>>
  /\ UNCHANGED <<promptVars, fetched, elsewhere>>

\* redo (lines 389-396): with historyIndex < history.length - 1, the nodes
\* and edges of the entry after; otherwise nothing
Redo ==
  /\ IF historyIndex < Len(history) - 1
     THEN /\ store' = history[(historyIndex + 1) + 1]
          /\ historyIndex' = historyIndex + 1
     ELSE UNCHANGED <<store, historyIndex>>
  /\ lastOp' = Logged("redo", historyIndex < Len(history) - 1)
  /\ UNCHANGED <<history, now>>
  /\ UNCHANGED <<pc, nodes, edges, userId, queue, enqueued, executed, results, node,
                 result, validEdges, runDoc, nodeDocs, toasts, calls, returned,
                 nodeData, error, apiKey, handlerCalls, providerCalls, enqueueLog,
                 observed>>
  /\ UNCHANGED <<promptVars, fetched, elsewhere>>

\* the editor's operations on the store
NextStore ==
  \/ SetNodes
  \/ SetEdges
  \/ UpdateEdge
  \/ DeleteNode
  \/ Undo
  \/ Redo

SpecStore == Init /\ [][NextStore]_vars

(* --------------------------------------- the store's session and documents *)
\* the state beside the workflow store and its session
apart == <<runVars, promptVars, fetched, keyVars, requestVars>>

\* the request at position i is answered: it is no longer in flight
Answered(i) == SubSeq(pending, 1, i - 1) \o SubSeq(pending, i + 1, Len(pending))

\* the requests: listDocuments of loadWorkflows; createDocument and
\* updateDocument of saveWorkflow with the nodes and edges serialized when
\* saveWorkflow was called
ListRequest == [kind |-> "list", id |-> 0, workflow |-> [nodes |-> <<>>, edges |-> {}]]
CreateRequest(st) == [kind |-> "create", id |-> 0, workflow |-> DeepCopy(st)]
UpdateRequest(id, st) == [kind |-> "update", id |-> id, workflow |-> DeepCopy(st)]

\* saveToHistory called on its own (lines 261-267)
SaveToHistoryCall ==
  /\ historyIndex + 2 <= MaxHistory
  /\ LET saved == SaveToHistory(store, history, historyIndex)
     IN  /\ history' = saved.history
         /\ historyIndex' = saved.historyIndex
  /\ lastOp' = Logged("saveToHistory", TRUE)
  /\ UNCHANGED <<store, now>>
  /\ UNCHANGED <<apart, sessionVars>>

\* loadWorkflows is called with a user set (lines 679-686): listDocuments
\* is sent; without a user it returns at once
LoadWorkflowsCall ==
  /\ user
  /\ Len(pending) < MaxPending
  /\ pending' = Append(pending, ListRequest)
  /\ UNCHANGED <<user, currentWorkflowId, documents>>
  /\ UNCHANGED <<apart, storeVars>>

\* login (lines 429-447): the session is created and account.get resolves,
\* the user is set and the history emptied; then loadWorkflows is called
Login ==
  /\ ~user
  /\ Len(pending) < MaxPending
  /\ user' = TRUE
  /\ history' = <<>>
  /\ historyIndex' = -1
  /\ pending' = Append(pending, ListRequest)
  /\ lastOp' = Logged("login", FALSE)
  /\ UNCHANGED <<store, now, currentWorkflowId, documents>>
  /\ UNCHANGED apart

\* mutant: logout empties the history and leaves historyIndex as it is
Logout_KeepsHistoryIndex ==
  /\ user
  /\ user' = FALSE
  /\ store' = [nodes |-> <<>>, edges |-> {}]
  /\ currentWorkflowId' = 0
  /\ history' = <<>>
  /\ lastOp' = Logged("logout", store # store')
  /\ UNCHANGED <<historyIndex, now, documents, pending>>
  /\ UNCHANGED apart

\* logout (lines 513-530): deleteSession resolves, then the user, the
\* nodes and edges, currentWorkflowId and the history are reset
Logout ==
  /\ user
  /\ user' = FALSE
  /\ store' = [nodes |-> <<>>, edges |-> {}]
  /\ currentWorkflowId' = 0
  /\ history' = <<>>
  /\ historyIndex' = -1
  /\ lastOp' = Logged("logout", store # store')
  /\ UNCHANGED <<now, documents, pending>>
  /\ UNCHANGED apart

\* listDocuments resolves (lines 687-698): with a document, the one updated
\* last becomes the store's nodes and edges and the only history entry;
\* without one nothing is set
ListResolved ==
  \E i \in DOMAIN pending :
    /\ pending[i].kind = "list"
    /\ pending' = Answered(i)
    /\ IF documents # <<>>
       THEN LET latestWorkflow == documents[Len(documents)]
            IN  /\ store' = DeepCopy(latestWorkflow.workflow)
                /\ currentWorkflowId' = latestWorkflow.id
                /\ history' = <<DeepCopy(latestWorkflow.workflow)>>
                /\ historyIndex' = 0
                /\ lastOp' = Logged("loadWorkflows", store # store')
       ELSE UNCHANGED <<store, currentWorkflowId, history, historyIndex, lastOp>>
    /\ UNCHANGED <<now, user, documents>>
    /\ UNCHANGED apart

\* listDocuments rejects (lines 699-702): a toast, nothing is set
ListRejected ==
  \E i \in DOMAIN pending :
    /\ pending[i].kind = "list"
    /\ pending' = Answered(i)
    /\ UNCHANGED <<user, currentWorkflowId, documents>>
    /\ UNCHANGED <<apart, storeVars>>

\* the workflows an earlier session may have saved: nodes 1..n, with an
\* edge from the first to the second when there are two
SavedWorkflows ==
  {[nodes |-> [i \in 1..n |-> i],
    edges |-> IF n > 1
              THEN {[id |-> 12, source |-> 1, target |-> 2, condition |-> "always"]}
              ELSE {}] : n \in 1..MaxSmallNodes}

\* the store as created, with the database holding no document or the
\* document of an earlier session
InitHistory ==
  /\ InitRun
  /\ InitNoTask
  /\ InitNoFetch
  /\ InitStore
  /\ InitKeys
  /\ InitNoRequest
  /\ InitNoUser
  /\ documents \in {<<>>} \cup {<<[id |-> 1, workflow |-> w]>> : w \in SavedWorkflows}

\* saveWorkflow is called, by handleSave or when the timer of debouncedSave
\* fires (lines 640-665, up to the await): without a user, or with neither
\* nodes nor edges, it returns; with a currentWorkflowId it sends
\* updateDocument for that id, otherwise createDocument
SaveWorkflowCall ==
  /\ user
  /\ store.nodes # <<>> \/ store.edges # {}
  /\ Len(pending) < MaxPending
  /\ pending' = Append(pending, IF currentWorkflowId # 0
                                THEN UpdateRequest(currentWorkflowId, store)
                                ELSE CreateRequest(store))
  /\ UNCHANGED <<user, currentWorkflowId, documents>>
  /\ UNCHANGED <<apart, storeVars>>

\* createDocument resolves: the document exists under a new id
\* (ID.unique()), and currentWorkflowId is set to it (line 666)
CreateResolved ==
  \E i \in DOMAIN pending :
    /\ pending[i].kind = "create"
    /\ pending' = Answered(i)
    /\ LET id == Len(documents) + 1
       IN  /\ documents' = Append(documents, [id |-> id,
                                              workflow |-> pending[i].workflow])
           /\ currentWorkflowId' = id
    /\ UNCHANGED user
    /\ UNCHANGED <<apart, storeVars>>

\* createDocument or updateDocument rejects (lines 668-670): logged only
SaveRejected ==
  \E i \in DOMAIN pending :
    /\ pending[i].kind \in {"create", "update"}
    /\ pending' = Answered(i)
    /\ UNCHANGED <<user, currentWorkflowId, documents>>
    /\ UNCHANGED <<apart, storeVars>>

\* updateDocument resolves: the document of that id holds the nodes and
\* edges sent and is the one updated last
UpdateResolved ==
  \E i \in DOMAIN pending :
    /\ pending[i].kind = "update"
    /\ pending' = Answered(i)
    /\ documents' = Append(SelectSeq(documents, LAMBDA d : d.id # pending[i].id),
                           [id |-> pending[i].id, workflow |-> pending[i].workflow])
    /\ UNCHANGED <<user, currentWorkflowId>>
    /\ UNCHANGED <<apart, storeVars>>

\* a user logs in to an empty database, builds a workflow and saves it
NextSave ==
  \/ Login
  \/ ListResolved
  \/ ListRejected
  \/ SetNodes
  \/ SaveWorkflowCall
  \/ CreateResolved
  \/ SaveRejected
  \/ UpdateResolved

SpecSave == Init /\ [][NextSave]_vars

\* the operations on the history
NextHistory ==
  \/ SaveToHistoryCall
  \/ UpdateEdge
  \/ DeleteNode
  \/ Undo
  \/ Redo
  \/ LoadWorkflowsCall
  \/ Login
  \/ Logout
  \/ ListResolved
  \/ ListRejected

SpecHistory == InitHistory /\ [][NextHistory]_vars

(* ------------------------------------------- executeTask's prompt building *)
\* the ids of the nodes of a graph whose ids are written in one way: the
\* nodes that may have a result, and the node that is executed
PreviousIds(kind) == {IdText(kind, k) : k \in 1..MaxPrevious}
ExecutedId(kind) == IdText(kind, MaxPrevious + 1)
\* an id of no node of the graph
OtherId(kind) == IdText(kind, MaxPrevious + 2)

\* the strings of at most k pieces over a set of pieces
RECURSIVE StringsUpTo(_, _)
StringsUpTo(k, pieces) ==
  IF k = 0 THEN {<<>>}
  ELSE LET shorter == StringsUpTo(k - 1, pieces)
       IN  shorter \cup {Append(s, p) : s \in shorter, p \in pieces}

\* the prompts of a node: literal text and placeholders of ids
PromptTemplates(ids) ==
  StringsUpTo(MaxTemplate, {Literal} \cup {Placeholder(id) : id \in ids})

\* the TaskResults a node may have in the map: a failed result (no data), a
\* successful one whose data.text is '' (the provider returned no content,
\* aiTaskHandler.ts line 71) or some text
ResultsOf(id) ==
  {[id |-> id, success |-> FALSE, data |-> FALSE, text |-> <<>>],
   [id |-> id, success |-> TRUE, data |-> TRUE, text |-> <<>>],
   [id |-> id, success |-> TRUE, data |-> TRUE, text |-> <<OutputText(id)>>]}

\* the maps of results of nodes of ids, as entries in insertion order: each
\* node has at most one result
RECURSIVE ResultMaps(_, _)
ResultMaps(k, ids) ==
  IF k = 0 THEN {<<>>}
  ELSE LET smaller == ResultMaps(k - 1, ids)
       IN  smaller \cup
           UNION {{Append(m, r) : r \in ResultsOf(id)} :
                    <<m, id>> \in {x \in smaller \X ids : ~HasResult(x[1], x[2])}}

\* executeTask is about to be called for a node that has no result yet,
\* with the results of other nodes of the graph
InitPrompt ==
  /\ InitRun
  /\ InitNoFetch
  /\ InitStore
  /\ InitElsewhere
  /\ \E kind \in IdKinds :
       LET ids == PreviousIds(kind) \cup {ExecutedId(kind), OtherId(kind)}
       IN  /\ \E prompt \in PromptTemplates(ids), targetHandle \in BOOLEAN :
                taskNode = [id |-> ExecutedId(kind), prompt |-> prompt,
                            targetHandle |-> targetHandle]
           /\ previousResults \in ResultMaps(MaxPrevious, PreviousIds(kind))
  /\ parameters = NotBuilt

\* executeTask up to the TaskConfig (lines 430-457)
BuildTaskConfig ==
  /\ ~parameters.built
  /\ taskNode # NoTaskNode
  /\ parameters' = [built |-> TRUE,
                    prompt |-> EffectivePrompt(taskNode, previousResults)]
  /\ UNCHANGED <<taskNode, previousResults>>
  /\ UNCHANGED <<pc, nodes, edges, userId, queue, enqueued, executed, results, node,
                 result, validEdges, runDoc, nodeDocs, toasts, calls, returned,
                 nodeData, error, apiKey, handlerCalls, providerCalls, enqueueLog,
                 observed, fetched>>
  /\ UNCHANGED <<storeVars, elsewhere>>

NextPrompt == BuildTaskConfig

SpecPrompt == InitPrompt /\ [][NextPrompt]_vars


(* ------------------------------------ the API key under overlapping calls *)
\* executeWorkflow is called (lines 173-196, up to the first await): without
\* options.userId it returns at once; with options.openAIApiKey it replaces
\* aiTaskHandler.options (updateAITaskHandlerOptions, lines 480-482), without
\* it the options stay as they are
KeyedCall ==
  \E r \in RunIds, uid \in BOOLEAN, key \in Keys \cup {NoKey}, n \in 1..MaxRunNodes :
    /\ runs[r].pc = "idle"
    /\ IF ~uid
       THEN /\ runs' = [runs EXCEPT ![r] = [pc |-> "done", userId |-> uid,
                                            key |-> key, left |-> 0]]
            /\ UNCHANGED handlerOptions
       ELSE /\ runs' = [runs EXCEPT ![r] = [pc |-> "running", userId |-> uid,
                                            key |-> key, left |-> n]]
            /\ handlerOptions' = IF key # NoKey THEN key ELSE handlerOptions
    /\ UNCHANGED providerKeys
    /\ UNCHANGED <<runVars, promptVars, fetched, storeVars, requestVars, sessionVars>>

\* after an await of the run, the task of its next AI node is called:
\* AITaskHandler.execute (aiTaskHandler.ts lines 37-60) reads this.options
\* when it is called; without a key it returns a failed result, with one it
\* creates the OpenAI client with that key
KeyedTask ==
  \E r \in RunIds :
    /\ runs[r].pc = "running"
    /\ runs[r].left > 0
    /\ runs' = [runs EXCEPT ![r].left = @ - 1]
    /\ providerKeys' = IF handlerOptions = NoKey THEN providerKeys
                       ELSE providerKeys \cup {[run |-> r, key |-> handlerOptions]}
    /\ UNCHANGED handlerOptions
    /\ UNCHANGED <<runVars, promptVars, fetched, storeVars, requestVars, sessionVars>>

\* the queue of the run is empty: the call returns (lines 262-308)
KeyedReturn ==
  \E r \in RunIds :
    /\ runs[r].pc = "running"
    /\ runs[r].left = 0
    /\ runs' = [runs EXCEPT ![r].pc = "done"]
    /\ UNCHANGED <<handlerOptions, providerKeys>>
    /\ UNCHANGED <<runVars, promptVars, fetched, storeVars, requestVars, sessionVars>>

NextKeys ==
  \/ KeyedCall
  \/ KeyedTask
  \/ KeyedReturn

SpecKeys == Init /\ [][NextKeys]_vars


(* ------------------------------------- the parameters of the provider call *)
\* const DEFAULT_MODEL (aiTaskHandler.ts line 16)
DEFAULT_MODEL == "gpt-4o-mini"
\* the literals '4000' and '0.7' of lines 67-68
DefaultMaxTokensText == <<"4", "0", "0", "0">>
DefaultTemperatureText == <<"0", ".", "7">>

\* a || b of JavaScript: b when a is falsy (undefined, 0, '')
NumberOr(a, b) == IF a.given /\ a.value # 0 THEN a.value ELSE b
TextOr(a, b) == IF a.given /\ a.value # <<>> THEN a.value ELSE b
NameOr(a, b) == IF a.given /\ a.value # "" THEN a.value ELSE b

\* parseInt of a string of digits
ParseInt(text) == IndexValue(text)
\* parseFloat of a string "i.d", in tenths
ParseFloat(text) ==
  LET dot == CHOOSE i \in 1..(Len(text) + 1) :
               /\ i <= Len(text) => text[i] = "."
               /\ \A j \in 1..(i - 1) : text[j] # "."
      whole == IndexValue(SubSeq(text, 1, dot - 1))
      tenth == IF dot < Len(text) THEN IndexValue(<<text[dot + 1]>>) ELSE 0
  IN  10 * whole + tenth

\* the values a node's parameters, and the environment, may have
ModelNames == {AbsentName, Given(""), Given("gpt-4o")}
NumberParameters == {AbsentNumber} \cup {Given(v) : v \in 0..MaxParameter}
EnvTokens ==
  {AbsentText, Given(<<>>)} \cup {Given(<<Digits[k]>>) : k \in 1..MaxParameter}
EnvTemperatures ==
  {AbsentText} \cup {Given(<<"0", ".", Digits[k]>>) : k \in 1..MaxParameter}

\* AITaskHandler.execute is about to be called with a key configured, for
\* a node with any parameters, under any environment
InitRequest ==
  /\ InitRun
  /\ InitNoTask
  /\ InitNoFetch
  /\ InitStore
  /\ InitKeys
  /\ InitSession
  /\ taskParameters \in [model : ModelNames, maxTokens : NumberParameters,
                         temperature : NumberParameters]
  /\ env \in [MAX_TOKENS : EnvTokens, DEFAULT_TEMPERATURE : EnvTemperatures]
  /\ request = NotSent

\* the arguments of openai.chat.completions.create (aiTaskHandler.ts lines
\* 55, 64-69)
CreateArguments(config, environment) ==
  [sent |-> TRUE,
   model |-> NameOr(config.model, DEFAULT_MODEL),
   max_tokens |-> NumberOr(config.maxTokens,
                           ParseInt(TextOr(environment.MAX_TOKENS,
                                           DefaultMaxTokensText))),
   temperature |-> NumberOr(config.temperature,
                            ParseFloat(TextOr(environment.DEFAULT_TEMPERATURE,
                                              DefaultTemperatureText)))]

\* AITaskHandler.execute calls the provider
CreateCompletion ==
  /\ request = NotSent
  /\ request' = CreateArguments(taskParameters, env)
  /\ UNCHANGED <<taskParameters, env>>
  /\ UNCHANGED <<runVars, promptVars, fetched, storeVars, keyVars, sessionVars>>

NextRequest == CreateCompletion

SpecRequest == InitRequest /\ [][NextRequest]_vars


(* ------------------------------------------------ vocabulary of the claims *)
\* the outcome that routes: result.success ? 'success' : 'error'
OutcomeOf(r) == IF r.success THEN "success" ELSE "error"

\* the task of node n has been called
Called(n) == \E i \in 1..Len(calls) : calls[i] = n

\* how often the task of node n has been called
CallCount(n) == Cardinality({i \in 1..Len(calls) : calls[i] = n})

\* node n has finished: its result is in the results map
Finished(n) == n \in DOMAIN results

\* n is a node of the nodes array
IsNode(n) == \E i \in 1..Len(nodes) : nodes[i] = n

\* the call has returned after the loop ran to its end and the final update
\* was written (no await rejected)
NormalEnd == pc = "done" /\ runDoc.status \in {"completed", "completed_with_errors"}

\* the routing of the node that finished last has just been computed
JustRouted == pc = "loop" /\ node # NoNode /\ Finished(node)

\* the edges that lead into node n from a finished node and are traversable
\* under that node's outcome
RoutedInto(n) ==
  {e \in edges : /\ e.target = n
                 /\ Finished(e.source)
                 /\ EdgeCondition(e) \in {"always", OutcomeOf(results[e.source])}}

(* ---------------------------------------------------------------------- *)
\* C1: No duplicate execution.  In one run of executeWorkflow the task of
\* each node is called at most once and at most one per-node document is
\* written for it, whatever the graph (cycles, self-loops, parallel edges,
\* several predecessors) and whatever the outcomes; and an entry of the
\* results map, once set, is never removed or overwritten.
C1_NoDuplicateExecution ==
  /\ [](\A n \in NodeIds :
          /\ CallCount(n) <= 1
          /\ Cardinality({i \in 1..Len(nodeDocs) : nodeDocs[i].nodeId = n}) <= 1)
  /\ [][\A k \in DOMAIN results :
          k \in DOMAIN results' /\ results'[k] = results[k]]_vars

\* C1 witness: a run ended normally in which some node was routed to over
\* two edges (a join, a cycle or parallel edges) and executed exactly once
C1_Witness ==
  /\ NormalEnd
  /\ \E n \in DOMAIN results : Cardinality(RoutedInto(n)) >= 2 /\ CallCount(n) = 1

(* ---------------------------------------------------------------------- *)
\* A has one outgoing "success" edge to node B and one outgoing "error" edge
\* to node C, and B and C have no other incoming edge
Fork(a, b, c) ==
  /\ [source |-> a, target |-> b, condition |-> "success"] \in edges
  /\ [source |-> a, target |-> c, condition |-> "error"] \in edges
  /\ IsNode(a) /\ IsNode(b) /\ IsNode(c)
  /\ \A e \in edges : e.target = b => e.source = a /\ e.condition = "success"
  /\ \A e \in edges : e.target = c => e.source = a /\ e.condition = "error"

\* C2: Error-path routing.  With A -success-> B and A -error-> C and no
\* other edge into B or C: once A has failed, B's task is never called and
\* C is scheduled, and a run that ends normally has executed C; once A has
\* succeeded, the same with B and C exchanged.
C2_ErrorPathRouting ==
  \A a \in DOMAIN results : \A b, c \in NodeIds :
    Fork(a, b, c) =>
      LET taken == IF results[a].success THEN b ELSE c
          other == IF results[a].success THEN c ELSE b
      IN  /\ ~Called(other)
          /\ other \notin enqueued
          /\ taken \in enqueued
          /\ NormalEnd => Finished(taken)

\* C2 witness: a fork whose source failed, in a run that ended normally
\* with C executed and B not
C2_Witness ==
  /\ NormalEnd
  /\ \E a, b, c \in NodeIds :
       /\ Fork(a, b, c)
       /\ Finished(a) /\ ~results[a].success
       /\ Finished(c) /\ ~Called(b)

(* ---------------------------------------------------------------------- *)
\* C3: Always-edge routing.  For every finished node N and every edge
\* N -> T with condition "always" whose target is in the nodes array, T is
\* scheduled as soon as N has finished, whether N succeeded or failed, and
\* a run that ends normally has executed T.
C3_AlwaysEdgeRouting ==
  \A e \in edges :
    e.condition = "always" /\ Finished(e.source) /\ IsNode(e.target) =>
      /\ e.target \in enqueued
      /\ NormalEnd => Finished(e.target)

\* C3 witness: a run ended normally in which a node failed and the target
\* of its "always" edge was executed after it
C3_Witness ==
  /\ NormalEnd
  /\ \E e \in edges :
       /\ e.condition = "always" /\ e.source # e.target
       /\ Finished(e.source) /\ ~results[e.source].success
       /\ Finished(e.target)
       /\ RoutedInto(e.target) = {e}

(* ---------------------------------------------------------------------- *)
\* C4: Routing rule.  When findNextNodes has run for a finished node with
\* outcome o, an outgoing edge whose condition is one of "always",
\* "success", "error" is among the selected (valid) edges if and only if
\* its condition is "always" or equals o.
C4_RoutingRule ==
  JustRouted =>
    \A e \in edges :
      e.source = node /\ e.condition \in {"always", "success", "error"} =>
        (e \in validEdges <=>
           (e.condition = "always" \/ e.condition = OutcomeOf(results[node])))

\* C4 witness: a node finished with outcome "error" that has an outgoing
\* "success" edge (rejected) and an outgoing "error" edge (selected)
C4_Witness ==
  /\ JustRouted
  /\ ~results[node].success
  /\ \E e1, e2 \in edges :
       /\ e1.source = node /\ e1.condition = "success" /\ e1 \notin validEdges
       /\ e2.source = node /\ e2.condition = "error" /\ e2 \in validEdges

(* ---------------------------------------------------------------------- *)
\* C5 as stated: an edge with an unknown condition value is treated as
\* "always": findNextNodes selects it for either outcome of its source.
C5_UnknownTreatedAsAlways ==
  JustRouted =>
    \A e \in edges : e.source = node /\ e.condition = Unknown => e \in validEdges

\* C5 as amended: an edge whose condition is a non-empty value other than
\* "always", "success" and "error" is traversable for neither outcome:
\* findNextNodes never selects it, and a node that only such edges lead
\* into is never executed.
C5_UnknownNeverTraversed ==
  /\ JustRouted =>
       \A e \in edges : e.source = node /\ e.condition = Unknown => e \notin validEdges
  /\ \A n \in NodeIds :
       (/\ \E e \in edges : e.target = n
        /\ \A e \in edges : e.target = n => e.condition = Unknown)
       => ~Called(n) /\ n \notin enqueued

\* C5 witness: a run ended normally in which a node with an outgoing
\* unknown-condition edge to another node of the array failed, and the
\* target was not executed
C5_Witness ==
  /\ NormalEnd
  /\ \E e \in edges :
       /\ e.condition = Unknown /\ IsNode(e.target) /\ e.source # e.target
       /\ Finished(e.source) /\ ~results[e.source].success
       /\ ~Called(e.target)

(* ---------------------------------------------------------------------- *)
\* C6: An edge with no condition set behaves like an "always" edge: it is
\* selected by findNextNodes after its source finished with either outcome,
\* its target (when in the nodes array) is scheduled at once, and a run
\* that ends normally has executed the target.
C6_UnsetBehavesAsAlways ==
  /\ JustRouted =>
       \A e \in edges : e.source = node /\ e.condition = Unset => e \in validEdges
  /\ \A e \in edges :
       e.condition = Unset /\ Finished(e.source) /\ IsNode(e.target) =>
         /\ e.target \in enqueued
         /\ NormalEnd => Finished(e.target)

\* C6 witness: a run ended normally in which a node failed and the target
\* of its condition-less edge, reached over no other edge, was executed
C6_Witness ==
  /\ NormalEnd
  /\ \E e \in edges :
       /\ e.condition = Unset /\ e.source # e.target
       /\ Finished(e.source) /\ ~results[e.source].success
       /\ Finished(e.target)
       /\ RoutedInto(e.target) = {e}

(* ---------------------------------------------------------------------- *)
\* the position of node n's task call in the order of calls
CallIndex(n) == CHOOSE i \in 1..Len(calls) : calls[i] = n

\* C7 as stated: Join readiness.  A node T starts executing only after
\* every other node P with an edge P -> T that is traversable under P's own
\* outcome has finished; with one task in flight at a time, P's task was
\* called before T's.
C7_JoinReadiness ==
  \A t \in NodeIds :
    Called(t) =>
      \A e \in RoutedInto(t) :
        e.source # t => CallIndex(e.source) < CallIndex(t)

(* ---------------------------------------------------------------------- *)
\* every node of the array is the target of some edge (an empty array too)
NoStartNode == \A i \in 1..Len(nodes) : \E e \in edges : e.target = nodes[i]

\* C8: When no node is free of incoming edges, executeWorkflow executes no
\* node, writes no per-node document, and returns (does not throw) an
\* empty results map.
C8_NoStartNodeNoExecution ==
  pc # "idle" /\ NoStartNode =>
    /\ pc = "done" /\ returned
    /\ calls = <<>>
    /\ nodeDocs = <<>>
    /\ DOMAIN results = {}
    /\ queue = <<>> /\ enqueued = {}

\* C8 witness: the call has returned for a non-empty graph in which every
\* node has an incoming edge
C8_Witness ==
  /\ pc = "done" /\ returned
  /\ Len(nodes) >= 2 /\ NoStartNode
  /\ DOMAIN results = {}

\* C9 as stated: when no start node exists, a run record of the call ends
\* with status "failed" and error "No starting node found".
C9_NoStartNodeRunFailed ==
  pc = "done" /\ NoStartNode =>
    runDoc.status = "failed" /\ runDoc.error = "No starting node found"

(* ---------------------------------------------------------------------- *)
\* the nodes free of incoming edges, by position in the nodes array
StartCandidates == {i \in 1..Len(nodes) : \A e \in edges : e.target # nodes[i]}

\* the first of them in declaration order
FirstCandidate ==
  nodes[CHOOSE i \in StartCandidates : \A j \in StartCandidates : i <= j]

\* the ids reachable from the ids in S along edges of any condition
RECURSIVE ReachableFrom(_)
ReachableFrom(S) ==
  LET more == S \cup {e.target : e \in {x \in edges : x.source \in S}}
  IN  IF more = S THEN S ELSE ReachableFrom(more)

\* C10: When several nodes have no incoming edge, the first of them in the
\* declaration order of the nodes array is the start node: it is the first
\* node executed, every executed node is reachable from it, and the other
\* candidates and the nodes reachable only from them are never executed.
C10_FirstCandidateIsStart ==
  pc # "idle" /\ Cardinality(StartCandidates) >= 2 =>
    /\ calls # <<>> => calls[1] = FirstCandidate
    /\ pc \notin {"done", "catch"} => FirstCandidate \in enqueued
    /\ NormalEnd => Finished(FirstCandidate)
    /\ LET start == FirstCandidate
           reachable == ReachableFrom({start})
       IN  \A n \in NodeIds \ reachable : ~Called(n) /\ n \notin enqueued

\* C10 witness: a run ended normally with two candidates, the first
\* executed, and a node reachable only from the second never executed
C10_Witness ==
  /\ NormalEnd
  /\ Cardinality(StartCandidates) >= 2
  /\ Finished(FirstCandidate)
  /\ \E i \in StartCandidates, n \in NodeIds :
       /\ nodes[i] # FirstCandidate /\ n # nodes[i] /\ IsNode(n)
       /\ n \in ReachableFrom({nodes[i]})
       /\ n \notin ReachableFrom({FirstCandidate})
       /\ ~Called(n) /\ ~Called(nodes[i])

(* ---------------------------------------------------------------------- *)
\* the call started a run, its loop ran until the queue was empty and the
\* final update was written: no await rejected
RanToEnd == pc = "done" /\ error = NoError /\ enqueueLog # <<>>

\* the ids reachable from the ids in S along edges that leave a finished
\* node and are traversable under that node's outcome
RECURSIVE TraversedFrom(_)
TraversedFrom(S) ==
  LET more == S \cup {e.target : e \in {x \in edges :
                        /\ x.source \in S
                        /\ Finished(x.source)
                        /\ EdgeCondition(x) \in {"always", OutcomeOf(results[x.source])}}}
  IN  IF more = S THEN S ELSE TraversedFrom(more)

\* C11: Partial coverage.  A node that is not reachable from the start node
\* along edges traversable under the actual outcomes never appears in the
\* results map; and when the run has run to its end with a node of the
\* array unexecuted, the final run record has nodesExecuted < totalNodes and
\* status "completed" or "completed_with_errors", not "failed".
C11_PartialCoverage ==
  /\ DOMAIN results # {} =>
       /\ StartCandidates # {}
       /\ LET start == FirstCandidate
              traversed == TraversedFrom({start})
          IN  DOMAIN results \subseteq traversed
  /\ RanToEnd /\ (\E i \in 1..Len(nodes) : ~Finished(nodes[i])) =>
       /\ runDoc.nodesExecuted < runDoc.totalNodes
       /\ runDoc.totalNodes = Len(nodes)
       /\ runDoc.status \in {"completed", "completed_with_errors"}

\* C11 witness: a run that ran to its end in which a node failed, its only
\* outgoing edge is a "success" edge, and the edge's target, a node of the
\* array, is not in the results map
C11_Witness ==
  /\ RanToEnd
  /\ runDoc.nodesExecuted < runDoc.totalNodes
  /\ \E e \in edges :
       /\ e.condition = "success" /\ IsNode(e.target)
       /\ Finished(e.source) /\ ~results[e.source].success
       /\ OutgoingEdges(e.source, edges) = {e}
       /\ ~Finished(e.target)

(* ---------------------------------------------------------------------- *)
\* C12: When the queue empties and no await has rejected, the final run
\* record has successCount = the number of results with success = true,
\* errorCount = the number of results with success = false, nodesExecuted =
\* the number of executed nodes, and status "completed" if and only if
\* errorCount = 0, otherwise "completed_with_errors".
C12_FinalCounts ==
  RanToEnd =>
    LET succeeded == {n \in NodeIds : Finished(n) /\ results[n].success}
        failed == {n \in NodeIds : Finished(n) /\ ~results[n].success}
    IN  /\ runDoc.successCount = Cardinality(succeeded)
        /\ runDoc.errorCount = Cardinality(failed)
        /\ runDoc.nodesExecuted = Cardinality(executed)
        /\ executed = succeeded \cup failed
        /\ runDoc.status = IF failed = {} THEN "completed" ELSE "completed_with_errors"

\* C12 witness: a run that ran to its end with a succeeded and a failed node
C12_Witness ==
  /\ RanToEnd
  /\ runDoc.successCount >= 1 /\ runDoc.errorCount >= 1
  /\ runDoc.status = "completed_with_errors"

(* ---------------------------------------------------------------------- *)
\* the routing after a failed node n: as soon as n has finished, exactly its
\* outgoing "error" and "always" edges are selected, their targets in the
\* array are scheduled, a target that only "success" edges of n lead into
\* is not, and a run that runs to its end has executed the targets
FailureRouted(n) ==
  /\ JustRouted /\ node = n =>
       validEdges = {e \in edges : e.source = n /\ e.condition \in {"error", "always"}}
  /\ \A e \in edges :
       e.source = n /\ IsNode(e.target) =>
         /\ e.condition \in {"error", "always"} =>
              /\ e.target \in enqueued
              /\ RanToEnd => Finished(e.target)
         /\ (\A x \in edges : x.target = e.target =>
                                x.source = n /\ x.condition = "success")
              => e.target \notin enqueued /\ ~Called(e.target)

\* the task of node n is the last one called
LastCalled(n) == calls # <<>> /\ calls[Len(calls)] = n

\* C13: Missing handler.  A node whose type has no registered handler (no
\* handler.execute call is made for it) yields a TaskResult with success =
\* false and error "No handler for task type" without a handler or the
\* provider being called; the run is not aborted by it, the node is recorded
\* in the results map when its document is written, and routing continues
\* along the node's "error" and "always" edges.
C13_MissingHandler ==
  /\ \A n \in NodeIds :
       LastCalled(n) /\ n \notin handlerCalls => error # "task"
  /\ pc = "storing" /\ node \notin handlerCalls =>
       /\ result = [success |-> FALSE, error |-> "No handler for task type",
                    nodeId |-> node, executionId |-> ExecutionId]
       /\ \A i \in 1..Len(providerCalls) : providerCalls[i] # node
  /\ \A n \in DOMAIN results :
       n \notin handlerCalls =>
         /\ ~results[n].success
         /\ results[n].error = "No handler for task type"
         /\ \A i \in 1..Len(providerCalls) : providerCalls[i] # n
         /\ FailureRouted(n)

\* C13 witness: a run that ran to its end in which a node without handler
\* is in the results map and the target of its "error" edge, reached over
\* no other edge, was executed after it
C13_Witness ==
  /\ RanToEnd
  /\ \E e \in edges :
       /\ e.condition = "error" /\ e.source # e.target
       /\ Finished(e.source) /\ e.source \notin handlerCalls
       /\ results[e.source].error = "No handler for task type"
       /\ Finished(e.target)
       /\ RoutedInto(e.target) = {e}

(* ---------------------------------------------------------------------- *)
\* C14 as stated: a failure of one node's task never escapes the scheduler
\* loop.  Whether the handler returns success = false or its execute call
\* rejects, the catch block is never entered for it, and unless a store
\* call rejects, every node whose task was called has a result in the
\* results map when the call returns, with the failed node's "error" and
\* "always" edges followed.
C14_TaskFailureNeverEscapes ==
  /\ error # "task"
  /\ \A n \in NodeIds :
       Called(n) /\ pc = "done" /\ error \notin (Errors \ {"task"}) => Finished(n)
  /\ \A n \in DOMAIN results : ~results[n].success => FailureRouted(n)

C16_StoreFailureBestEffort ==
  error = "store" =>
    /\ \A n \in NodeIds : LastCalled(n) => Finished(n)
    /\ pc = "done" => queue = <<>> /\ \A n \in enqueued : Finished(n)

(* ---------------------------------------------------------------------- *)
\* an await on the store rejected inside the try block
InfrastructureFailure == error \in {"create", "store", "final"}

C18_CallerCanTell ==
  pc = "done" /\ observed # NoObservation /\ observed.returned = results =>
    /\ ~(/\ observed.status = "failed"
         /\ runDoc.status \in {"completed", "completed_with_errors"})
    /\ ~(/\ observed.status \in {"completed", "completed_with_errors"}
         /\ runDoc.status = "failed")

(* ---------------------------------------------------------------------- *)
\* the run record as created: status "running", all counts zero
IsFreshRunDoc(doc) ==
  /\ doc.status = "running"
  /\ doc.nodesExecuted = 0 /\ doc.successCount = 0 /\ doc.errorCount = 0

\* C19: Run lifecycle.  The run record is created with status "running"
\* and zero counts, and it is in the store before the first task of the run
\* is started; its status leaves "running" at most once, to "completed",
\* "completed_with_errors" or "failed", and after that no write of the run
\* changes the record.
C19_RunLifecycle ==
  /\ [](calls # <<>> => runDoc.status # "none")
  /\ [][/\ runDoc.status = "none" /\ runDoc' # runDoc => IsFreshRunDoc(runDoc')
        /\ calls = <<>> /\ calls' # <<>> => IsFreshRunDoc(runDoc)
        /\ runDoc.status = "running" /\ runDoc' # runDoc =>
             runDoc'.status \in {"completed", "completed_with_errors", "failed"}
        /\ runDoc.status \notin {"none", "running"} => runDoc' = runDoc]_vars

\* C19 witness: a run whose final update was rejected has returned with the
\* record "failed", after its tasks ran under the record "running"
C19_Witness ==
  /\ pc = "done"
  /\ error = "final"
  /\ runDoc.status = "failed"
  /\ calls # <<>>

(* ---------------------------------------------------------------------- *)
\* C20: Execution is strictly sequential and in queue order.  A task is
\* started only when every task started before it has finished (so at most
\* one task call is in flight), and the tasks are started in exactly the
\* order in which their nodes were pushed on the queue, the start node
\* first.
C20_SequentialFifo ==
  /\ \A i \in 1..Len(calls) :
       /\ i <= Len(enqueueLog) /\ calls[i] = enqueueLog[i]
       /\ i < Len(calls) => Finished(calls[i])
  /\ pc \in {"task", "storing"} =>
       calls # <<>> /\ node = calls[Len(calls)] /\ ~Finished(node)
  /\ pc \in {"loop", "finalizing"} => \A i \in 1..Len(calls) : Finished(calls[i])
  /\ RanToEnd => calls = enqueueLog

\* C20 witness: a run that ran to its end after three tasks, two of them
\* scheduled by the same node
C20_Witness ==
  /\ RanToEnd
  /\ Len(calls) = 3 /\ calls = enqueueLog
  /\ \E e1, e2 \in edges :
       e1 # e2 /\ e1.source = calls[1] /\ e2.source = calls[1]
       /\ e1.target = calls[2] /\ e2.target = calls[3]

\* ---------------------------------------------------------------------
\* C21: every TaskResult in the results map, and the copy of it in the
\* per-node record stored for it, carries its node's id and the run's
\* executionId: results[k].nodeId = k and results[k].executionId is the id
\* generated for this call, for successful, failed and missing-handler
\* results alike; the stored record has the same nodeId and executionId
\* as the result it holds.
C21_ResultIdentity ==
  /\ \A k \in DOMAIN results :
       /\ results[k].nodeId = k
       /\ results[k].executionId = ExecutionId
  /\ \A i \in DOMAIN nodeDocs :
       /\ nodeDocs[i].results.nodeId = nodeDocs[i].nodeId
       /\ nodeDocs[i].results.executionId = ExecutionId
       /\ nodeDocs[i].executionId = ExecutionId
  /\ pc = "storing" =>
       /\ result.nodeId = node
       /\ result.executionId = ExecutionId

\* C21 witness: a returned map with a successful result and a
\* missing-handler result, both stored
C21_Witness ==
  /\ pc = "done"
  /\ returned
  /\ \E a, b \in DOMAIN results :
       /\ results[a].success
       /\ results[b].error = "No handler for task type"
  /\ Len(nodeDocs) = Cardinality(DOMAIN results)

\* ---------------------------------------------------------------------
\* vocabulary of the prompt claims
\* the prompt with X in place of every placeholder {{A}} of a node A that
\* finished successfully with data.text = X
RECURSIVE Substituted(_, _)
Substituted(prompt, prev) ==
  IF prompt = <<>> THEN <<>>
  ELSE LET piece == Head(prompt)
           rest == Substituted(Tail(prompt), prev)
       IN  IF /\ piece.t = "{{id}}"
              /\ HasResult(prev, piece.id)
              /\ ResultOf(prev, piece.id).success
              /\ ResultOf(prev, piece.id).data
           THEN ResultOf(prev, piece.id).text \o rest
           ELSE <<piece>> \o rest
\* the last k pieces of a string
Suffix(str, k) == SubSeq(str, Len(str) - k + 1, Len(str))
\* how often a piece occurs in a string
Count(str, piece) == Cardinality({i \in DOMAIN str : str[i] = piece})
\* id has no result with data in the map
Missing(prev, id) == ~(HasResult(prev, id) /\ ResultOf(prev, id).data)
\* the order in which the keys of an object are listed: array indices in
\* ascending order before all other keys, these in insertion order
ListedBefore(prev, a, b) ==
  IF IsArrayIndex(a.id) /\ IsArrayIndex(b.id)
  THEN IndexValue(a.id) < IndexValue(b.id)
  ELSE IF IsArrayIndex(a.id) \/ IsArrayIndex(b.id)
  THEN IsArrayIndex(a.id)
  ELSE \E i, j \in DOMAIN prev : i < j /\ prev[i] = a /\ prev[j] = b
KeyOrder(prev) ==
  CHOOSE s \in [DOMAIN prev -> {prev[i] : i \in DOMAIN prev}] :
    \A i, j \in DOMAIN prev : i < j => ListedBefore(prev, s[i], s[j])

\* C22 (as stated): when a node A has finished successfully with
\* data.text = X and the prompt of the node being executed contains {{A}},
\* the prompt handed to the handler ends with the node's prompt in which X
\* stands in place of every {{A}}.
C22_TemplateSubstitution ==
  parameters.built /\ taskNode.prompt # <<>> =>
    LET expected == Substituted(taskNode.prompt, previousResults)
    IN  /\ Len(parameters.prompt) >= Len(expected)
        /\ Suffix(parameters.prompt, Len(expected)) = expected

\* C23: a placeholder {{id}} whose id has no result with data in the map
\* when the node is executed (no result at all, or a result without data)
\* is left in the prompt as it is: it occurs in the built prompt as often
\* as in the node's prompt; and for every node and map the processed
\* template is defined (no exception) and keeps these placeholders.
C23_MissingLeftVerbatim ==
  /\ parameters.built =>
       \A i \in DOMAIN taskNode.prompt :
         LET piece == taskNode.prompt[i]
         IN  piece.t = "{{id}}" /\ Missing(previousResults, piece.id) =>
               Count(parameters.prompt, piece) = Count(taskNode.prompt, piece)
  /\ ~parameters.built =>
       Len(ProcessPromptTemplate(taskNode.prompt, previousResults)) >=
         Cardinality({i \in DOMAIN taskNode.prompt :
                        /\ taskNode.prompt[i].t = "{{id}}"
                        /\ Missing(previousResults, taskNode.prompt[i].id)})

\* C23 witness: a built prompt whose template names a node that failed
\* (no data) and a node without a result, both ids matching \w+
C23_Witness ==
  /\ parameters.built
  /\ \E i, j \in DOMAIN taskNode.prompt :
       LET a == taskNode.prompt[i]
           b == taskNode.prompt[j]
       IN  /\ a.t = "{{id}}" /\ IsWord(a.id)
           /\ HasResult(previousResults, a.id)
           /\ ~ResultOf(previousResults, a.id).data
           /\ b.t = "{{id}}" /\ IsWord(b.id)
           /\ ~HasResult(previousResults, b.id)
           /\ b.id # taskNode.id
           /\ a.id # b.id
           /\ Count(parameters.prompt, a) = 1
           /\ Count(parameters.prompt, b) = 1

\* C24 (as stated): the effective prompt is one context block for every
\* successful result in the map other than the node's own, in insertion
\* order, then the separator, then the substituted prompt (with no
\* successful result, the substituted prompt with or without the separator).
C24_BlockPerSuccessInInsertionOrder ==
  parameters.built =>
    LET blocks == SelectSeq(previousResults,
                            LAMBDA r : r.success /\ r.id # taskNode.id)
        prompt == ProcessPromptTemplate(taskNode.prompt, previousResults)
    IN  \/ parameters.prompt = (ContextOf(blocks) \o <<BasedOn>>) \o prompt
        \/ blocks = <<>> /\ parameters.prompt = prompt

\* C24 (amended): a node with an empty prompt keeps it; otherwise the
\* effective prompt is the substituted prompt, preceded, if the node has no
\* data.targetHandle, by one context block for every result other than the
\* node's own that is successful with a non-empty data.text, the blocks in
\* the order in which the keys of the map are listed (array indices
\* ascending, then insertion order), and the separator; nothing precedes it
\* when there is no such result.
C24_ContextPrepend ==
  parameters.built =>
    LET blocks == SelectSeq(KeyOrder(previousResults),
                            LAMBDA r : /\ r.success
                                       /\ r.text # <<>>
                                       /\ r.id # taskNode.id)
        prompt == ProcessPromptTemplate(taskNode.prompt, previousResults)
    IN  IF taskNode.prompt = <<>>
        THEN parameters.prompt = <<>>
        ELSE IF taskNode.targetHandle \/ blocks = <<>>
        THEN parameters.prompt = prompt
        ELSE parameters.prompt = (ContextOf(blocks) \o <<BasedOn>>) \o prompt

\* C24 witness: two successful results with text, inserted with the larger
\* array index first, and the context lists the smaller one first
C24_Witness ==
  /\ parameters.built
  /\ ~taskNode.targetHandle
  /\ Len(previousResults) = 2
  /\ IsArrayIndex(previousResults[1].id)
  /\ IndexValue(previousResults[1].id) > IndexValue(previousResults[2].id)
  /\ Len(parameters.prompt) > 5
  /\ parameters.prompt[2] = OutputText(previousResults[2].id)
  /\ parameters.prompt[5] = OutputText(previousResults[1].id)

\* ---------------------------------------------------------------------
\* C25 (as stated): every executed node has made exactly one call of the
\* completion provider, so when a run has ended the number of provider
\* calls is the number of executed nodes.
C25_OneProviderCallPerNode ==
  pc = "done" => Len(providerCalls) = Cardinality(executed)

\* C25 (amended): an invocation of the task executor calls the provider at
\* most once and never again for the same node: exactly once when the
\* node's type has the AI handler and an API key is configured, not at all
\* when the key is missing or the type has no handler.  So the nodes the
\* provider was called for are, without repetition, the nodes whose handler
\* was called if a key is configured, and none otherwise.
C25_AtMostOneProviderCall ==
  /\ \A i, j \in DOMAIN providerCalls :
       providerCalls[i] = providerCalls[j] => i = j
  /\ {providerCalls[i] : i \in DOMAIN providerCalls} =
       IF apiKey THEN handlerCalls ELSE {}
  /\ handlerCalls \subseteq {calls[i] : i \in DOMAIN calls}
  /\ Len(providerCalls) <= Len(calls)

\* C25 witness: a run that has ended after a node whose provider call
\* failed and a node without handler: one provider call, two executed nodes
C25_Witness ==
  /\ pc = "done"
  /\ RanToEnd
  /\ apiKey
  /\ Len(providerCalls) = 1
  /\ Cardinality(executed) = 2
  /\ \E k \in DOMAIN results : results[k].error = "provider error"
  /\ \E k \in DOMAIN results : results[k].error = "No handler for task type"

\* ---------------------------------------------------------------------
\* C26 (as stated): executeWorkflow leaves the caller's graph unchanged
\* while the run is in flight and after it has returned: the nodes array,
\* the edges array and every node's data are as they were passed (no node
\* has a lastExecutionId).
C26_GraphReadOnly ==
  pc # "idle" => nodeData = [i \in 1..Len(nodes) |-> ""]

\* C27 (as stated): fetchWorkflowResults(E), called after the run E has
\* returned and resolving, returns a map whose keys are exactly the ids of
\* the nodes whose result the run has stored, each with the TaskResult
\* produced for that node, and no other entry.
C27_StoreRoundTrip ==
  fetched.status = "returned" =>
    /\ DOMAIN fetched.map = {nodeDocs[i].nodeId : i \in DOMAIN nodeDocs}
    /\ \A k \in DOMAIN results :
         k \in DOMAIN fetched.map /\ fetched.map[k] = results[k]

\* ---------------------------------------------------------------------
\* vocabulary of the store claims
IsEdit(entry) == entry.op \in {"deleteNode", "updateEdge"}

\* C28 (as stated): a call of undo() right after an edit made through
\* deleteNode or updateEdge sets the store's nodes and edges to the ones
\* from immediately before that edit.
C28_UndoRestoresBeforeEdit ==
  [][IsEdit(lastOp) /\ lastOp'.op = "undo" => store' = lastOp.before]_vars

\* C29 (as stated): a call of redo() right after an undo() that changed
\* the nodes and edges from X to Y sets the store's nodes and edges to X
\* again.
C29_RedoReversesUndo ==
  [][/\ lastOp.op = "undo"
     /\ lastOp.changed
     /\ lastOp'.op = "redo"
     => store' = lastOp.before]_vars

\* ---------------------------------------------------------------------
\* C30: whatever the graph (cycles and self-loops included) and the
\* outcomes, if every task call and store call returns, the scheduler loop
\* ends: from any point of the loop the run gets to the final update with
\* an empty queue, unless an awaited call rejected; and no more tasks are
\* called than the nodes array has nodes.
C30_Termination ==
  /\ [](Len(calls) <= Len(nodes))
  /\ (pc = "loop") ~> ((pc = "finalizing" /\ queue = <<>>) \/ error # NoError)

\* C30 witness: the loop has ended with an empty queue on a graph with a
\* cycle a -> b -> a behind the start node, both edges traversed
C30_Witness ==
  /\ pc = "finalizing"
  /\ queue = <<>>
  /\ Cardinality(executed) = 3
  /\ \E a, b \in executed :
       /\ a # b
       /\ \E e1, e2 \in edges :
            /\ e1.source = a /\ e1.target = b
            /\ e2.source = b /\ e2.target = a
            /\ IsValidEdge(e1, OutcomeOf(results[a]))
            /\ IsValidEdge(e2, OutcomeOf(results[b]))

(* ---------------------------------------------------------------------- *)
\* C31: Dependency gating.  Every item on the queue awaits only nodes that
\* are already in the executed set; an iteration that pops an item with an
\* unfinished dependency pushes it back to the tail and calls no task, and
\* an iteration that pops an item whose dependencies are all executed calls
\* the task of that item's node; so no task is called while a node its item
\* awaits is unfinished.
C31_DependencyGating ==
  /\ [](\A i \in DOMAIN queue :
          /\ queue[i].dependencies \subseteq executed
          /\ \A d \in queue[i].dependencies : Finished(d))
  /\ [][pc = "loop" /\ queue # <<>> =>
          IF Head(queue).dependencies \subseteq executed
          THEN calls' = Append(calls, Head(queue).node) /\ queue' = Tail(queue)
          ELSE calls' = calls /\ queue' = Append(Tail(queue), Head(queue))]_vars

\* C31 witness: the task of a second node is running, called from an item
\* that awaited an executed node, while another item that awaits an
\* executed node is still queued
C31_Witness ==
  /\ pc = "task"
  /\ Len(calls) >= 2
  /\ \E i \in DOMAIN queue :
       queue[i].dependencies # {} /\ queue[i].dependencies \subseteq executed

(* ---------------------------------------------------------------------- *)
\* the least set that contains the ids in S and, for every finished node N
\* in it with outcome o, the target of every edge N -> T whose target is in
\* the nodes array and whose condition is unset, "always" or o
RECURSIVE ClosureFrom(_)
ClosureFrom(S) ==
  LET more == S \cup {e.target : e \in {x \in edges :
                        /\ x.source \in S
                        /\ Finished(x.source)
                        /\ IsNode(x.target)
                        /\ x.condition \in {Unset, "always", OutcomeOf(results[x.source])}}}
  IN  IF more = S THEN S ELSE ClosureFrom(more)

\* C32: Reachability closure.  No node outside the closure of the start
\* node under the traversable edges (condition unset, "always" or equal to
\* the source's outcome, target in the nodes array) is ever executed, and
\* when the run has run to its end the executed set, which is the key set
\* of the results map, is exactly that closure: no node of it is skipped,
\* and an edge whose target is not in the nodes array adds nothing.
C32_ReachabilityClosure ==
  LET start == FindStartNode(nodes, edges)
      closure == ClosureFrom({start})
  IN  /\ executed # {} => start # NoNode /\ executed \subseteq closure
      /\ RanToEnd => /\ executed = closure
                     /\ DOMAIN results = closure
                     /\ \A n \in closure : IsNode(n) /\ CallCount(n) = 1

\* C32 witness: a run that ran to its end in which the start node has an
\* edge with no condition to a second node, which was executed, and some
\* executed node has an edge to an id that is not in the nodes array
C32_Witness ==
  /\ RanToEnd
  /\ \E e \in edges :
       /\ e.condition = Unset /\ e.source = FindStartNode(nodes, edges)
       /\ e.target # e.source /\ e.target \in executed
  /\ \E e \in edges : e.source \in executed /\ ~IsNode(e.target)

(* ---------------------------------------------------------------------- *)
\* C33: Count consistency.  In every run record the engine has written
\* (the initial one, the final one and the one of the failure path)
\* successCount + errorCount = nodesExecuted and nodesExecuted <= totalNodes.
C33_CountConsistency ==
  runDoc.status # "none" =>
    /\ runDoc.successCount + runDoc.errorCount = runDoc.nodesExecuted
    /\ runDoc.nodesExecuted <= runDoc.totalNodes

(* ---------------------------------------------------------------------- *)
\* C34: Results are persisted before they count.  Every node id in the
\* results map has a per-node document of this executionId, holding that
\* result, in the store; the documents were written in the order of the
\* task calls, and while the task of the k-th node is called or stored the
\* documents of the k-1 nodes called before it are all written, so a
\* node's document is written before any successor of it starts.
C34_PersistedBeforeCounted ==
  /\ \A n \in DOMAIN results :
       \E i \in 1..Len(nodeDocs) :
         /\ nodeDocs[i].nodeId = n
         /\ nodeDocs[i].executionId = ExecutionId
         /\ nodeDocs[i].results = results[n]
  /\ Len(nodeDocs) <= Len(calls)
  /\ \A i \in 1..Len(nodeDocs) : nodeDocs[i].nodeId = calls[i]
  /\ pc \in {"task", "storing"} => Len(nodeDocs) = Len(calls) - 1

\* C34 witness: the task of a successor of a finished node is running and
\* the finished node's document is in the store
C34_Witness ==
  /\ pc = "task"
  /\ \E e \in edges :
       /\ e.target = node /\ e.source # node
       /\ Finished(e.source)
       /\ \E i \in 1..Len(nodeDocs) : nodeDocs[i].nodeId = e.source

(* ---------------------------------------------------------------------- *)
\* C35: API-key isolation between runs.  Every OpenAI client created for a
\* run is created with the key passed in that run's own options: never with
\* the key of an earlier call when the run passed none, and never with the
\* key a second, overlapping call has set.
C35_KeyIsolation ==
  \A use \in providerKeys : use.key = runs[use.run].key

(* ---------------------------------------------------------------------- *)
\* C36: userId is optional.  A call on a graph with a start node but
\* without options.userId still executes the workflow: when it has
\* returned with no await rejected, the start node's task has been called
\* and every node reachable under the outcomes has a result.
C36_UserIdOptional ==
  pc = "done" /\ ~userId /\ error = NoError /\ FindStartNode(nodes, edges) # NoNode =>
    /\ calls # <<>>
    /\ calls[1] = FindStartNode(nodes, edges)
    /\ DOMAIN results = ClosureFrom({FindStartNode(nodes, edges)})

(* ---------------------------------------------------------------------- *)
\* the defaults of the provider call: the environment's value, or 4000
\* tokens and temperature 0.7 (7 tenths)
DefaultMaxTokens ==
  IF env.MAX_TOKENS.given /\ env.MAX_TOKENS.value # <<>>
  THEN ParseInt(env.MAX_TOKENS.value) ELSE 4000
DefaultTemperature ==
  IF env.DEFAULT_TEMPERATURE.given
  THEN ParseFloat(env.DEFAULT_TEMPERATURE.value) ELSE 7

\* C37: Parameter defaults apply only when a parameter is unset.  When the
\* node sets maxTokens or temperature, the value 0 included, that value is
\* passed to the completion provider; the default is passed only when the
\* parameter is absent.
C37_DefaultsOnlyWhenUnset ==
  request.sent =>
    /\ request.max_tokens =
         IF taskParameters.maxTokens.given THEN taskParameters.maxTokens.value
         ELSE DefaultMaxTokens
    /\ request.temperature =
         IF taskParameters.temperature.given THEN taskParameters.temperature.value
         ELSE DefaultTemperature

(* ---------------------------------------------------------------------- *)
\* C38: History index bound.  Through every sequence of saveToHistory,
\* updateEdge, deleteNode, undo, redo, loadWorkflows, login and logout,
\* -1 <= historyIndex <= history.length - 1, and historyIndex = -1 exactly
\* when the history is empty; an undo at index <= 0 and a redo at the last
\* index change neither the nodes and edges nor the history nor the index.
C38_HistoryIndexBound ==
  /\ [](/\ -1 <= historyIndex
        /\ historyIndex <= Len(history) - 1
        /\ historyIndex = -1 <=> history = <<>>)
  /\ [][lastOp'.op = "undo" /\ historyIndex <= 0 =>
          UNCHANGED <<store, history, historyIndex>>]_vars
  /\ [][lastOp'.op = "redo" /\ historyIndex >= Len(history) - 1 =>
          UNCHANGED <<store, history, historyIndex>>]_vars

\* C38 witness: after a login a workflow was loaded, an edit was made and
\* undone, and a second undo, at index 0, has changed nothing
C38_Witness ==
  /\ user
  /\ currentWorkflowId # 0
  /\ lastOp.op = "undo" /\ ~lastOp.changed
  /\ historyIndex = 0
  /\ Len(history) >= 2

(* ---------------------------------------------------------------------- *)
\* C39: saveWorkflow creates a workflow document only when none exists.
\* For a logged-in user with a non-empty workflow, starting with no
\* currentWorkflowId and no document, every sequence of saveWorkflow calls,
\* overlapping ones included, creates one document at most, and once a
\* currentWorkflowId is set it is the id of that one document.
C39_OneDocumentCreated ==
  /\ Len(documents) <= 1
  /\ currentWorkflowId # 0 => Len(documents) = 1 /\ documents[1].id = currentWorkflowId

====
